---- MODULE Spec2Model ----
(***************************************************************************)
(* Document ingestion and retrieval core of the RAG service (ragapi):      *)
(* the ingestion pipeline process_document with its persisted status       *)
(* record, the upload and status endpoints, and the filesystem fragment    *)
(* store.                                                                  *)
(***************************************************************************)
EXTENDS Integers, Sequences, FiniteSets, TLC

\* ------------------------------------------------------------------ bounds
MaxDocs == 1
MaxChunks == 3
MaxBatchSize == 2
MaxStoreOps == 3
MaxStoreDocs == 2
MaxStoreIds == 1
MaxTopK == 2
MaxSeeds == 1
MaxSegments == 3
MaxChunkSize == 6
MaxTexts == 3
MaxTextsPerRequest == 2
MaxRequests == 3

Docs == 1..MaxDocs

\* Python's None, for the values that are strings in the program.
None == "None"

\* conversation_id values of requests: absent, or a named conversation.
ConversationIds == {None, "conv"}

\* conversation_id values of direct store calls: also the empty string.
StoreNamespaces == {None, "", "conv"}

\* Directories below settings.embeddings_path.
Dirs == {"base", "conv"}

\* chunk_count of a status record whose metadata snapshot has no such key.
Absent == 0 - 1

\* ------------------------------------------------------------ data model
\* DocumentStatus (str, Enum).
DocumentStatus == {"pending", "processing", "indexed", "failed"}

\* ProcessingStage: the enum imported by routes.py; its members in
\* pipeline order.
ProcessingStage ==
  <<"initialization", "text_extraction", "chunking", "embedding", "storage",
    "complete">>

\* `if conversation_id:` selects the sub-directory; None and "" both fall
\* back to the base directory.
ensure_embeddings_dir(conversation_id) ==
  IF conversation_id = None \/ conversation_id = "" THEN "base"
  ELSE conversation_id

\* A status file that does not exist.
NoStatus ==
  [exists |-> FALSE, status |-> "none", processing_stage |-> "none",
   error |-> None, chunk_count |-> Absent]

\* status_data as written by update_document_status: the error entry is
\* the exception type name (None when no error was passed), chunk_count is
\* the metadata snapshot's chunk_count (Absent when the key is not there).
StatusData(status, stage, chunk_count, error) ==
  [exists |-> TRUE, status |-> status, processing_stage |-> stage,
   error |-> error, chunk_count |-> chunk_count]

\* Chunk.__init__: a fragment; embedding <<>> stands for None.  picklable
\* says whether pickle.dump of the object succeeds.
Chunk(chunk_id, document_id, text, embedding, metadata, picklable) ==
  [chunk_id |-> chunk_id, document_id |-> document_id, text |-> text,
   embedding |-> embedding, metadata |-> metadata, picklable |-> picklable]

\* uuid4 of the j-th Chunk object built for document d: distinct objects
\* get distinct ids.
uuid4(d, j) == (d - 1) * (MaxChunks + 1) + j

ChunkIds == 1..(MaxDocs * (MaxChunks + 1) + MaxStoreIds)

\* ------------------------------------------------------------- variables
VARIABLES
  \* configuration and process-wide singletons
  embedding_batch_size,  \* settings.embedding_batch_size
  api_key_set,           \* the embedding backend has its credentials/model
  embedding_model,       \* dependencies._embedding_model: None/uninit/ready
  \* FilesystemStorage
  index,                 \* self.index: conversation_id -> ordered dict
  files,                 \* <dir, chunk_id> -> the .pickle file
  index_file,            \* dir -> index.json
  \* one upload / one process_document run per document id
  pc,                    \* position of the run
  conv,                  \* its conversation_id
  mode,                  \* "sync", "async" upload or "direct" call
  supplied,              \* collaborators were passed in by the caller
  status_file,           \* <dir, document_id> -> {document_id}_status.json
  status_log,            \* history: every status_data written, in order
  result,                \* the result dict of process_document
  chunks_data,           \* chunker output
  chunks,                \* Chunk objects built so far
  batch_i,               \* loop variable i of the embedding loop
  embed_calls,           \* history: number of get_embeddings calls
  fault,                 \* history: the stage whose work raised, if any
  response,              \* the DocumentResponse / HTTP error of the upload
  ack,                   \* history: run position when the response was sent
  \* requests against the running service
  status_response,       \* answer of the last get_document_status request
  op_log,                \* history: direct store calls with their results
  \* callers of the store
  store_call,            \* the last completed call on the store, with its answer
  n_calls,               \* number of completed calls that write
  writers,               \* tasks of the event loop that call add / delete
  \* TextChunker
  split_call,            \* one split_text call: its chunker, text and answer
  \* embedding providers
  provider,              \* an EmbeddingModel instance: its fields
  embed_call,            \* the last call on the instance, with its answer
  \* api/dependencies.py
  _storage,              \* dependencies._storage: None/uninit/ready
  requests,              \* the requests resolving a dependency
  running                \* the request the event loop is running, 0: none

cfg_vars == <<embedding_batch_size, api_key_set>>
store_vars == <<index, files, index_file>>
run_vars ==
  <<pc, conv, mode, supplied, status_file, status_log, result, chunks_data,
    chunks, batch_i, embed_calls, fault, response, ack>>
call_vars == <<store_call, n_calls, writers>>
provider_vars == <<provider, embed_call>>
dep_vars == <<_storage, requests, running>>
vars ==
  <<cfg_vars, dep_vars, embedding_model, store_vars, run_vars, status_response, op_log,
    call_vars, split_call, provider_vars>>

\* ------------------------------------------------------ FilesystemStorage
\* A .pickle file: absent, written in full, or left truncated by a
\* pickle.dump that raised after open(path, "wb").
NoChunk == Chunk(0, 0, 0, <<>>, [none |-> TRUE], FALSE)
NoFile == [kind |-> "none", chunk |-> NoChunk]
CorruptFile == [kind |-> "corrupt", chunk |-> NoChunk]
PickleFile(chunk) == [kind |-> "chunk", chunk |-> chunk]

\* _get_chunk_path: the path of a chunk file, as <directory, chunk id>.
_get_chunk_path(chunk_id, conversation_id) ==
  <<ensure_embeddings_dir(conversation_id), chunk_id>>

\* Python dict with string keys kept as the sequence of its items in
\* insertion order; an item is the index entry with its chunk_id key.
DictHas(d, key) == \E i \in 1..Len(d) : d[i].chunk_id = key
DictPos(d, key) == CHOOSE i \in 1..Len(d) : d[i].chunk_id = key
DictGet(d, key) == d[DictPos(d, key)]
DictSet(d, item) ==
  IF DictHas(d, item.chunk_id)
  THEN [d EXCEPT ![DictPos(d, item.chunk_id)] = item]
  ELSE Append(d, item)

\* Variant of IndexEntry: the recorded path leaves out the conversation's
\* directory.
IndexEntryBasePath(chunk, chunk_path) ==
  [chunk_id |-> chunk.chunk_id, document_id |-> chunk.document_id,
   path |-> <<"base", chunk.chunk_id>>, metadata |-> chunk.metadata]

\* The entry add_chunks puts into self.index[conversation_id] (created_at
\* left out).
IndexEntry(chunk, chunk_path) ==
  [chunk_id |-> chunk.chunk_id, document_id |-> chunk.document_id,
   path |-> chunk_path, metadata |-> chunk.metadata]

\* Variant of SkipChunk: the id of the chunk is reported all the same.
SkipChunkReported(st, chunk, chunk_path) ==
  [st EXCEPT !.files = [st.files EXCEPT ![chunk_path] = CorruptFile],
             !.chunk_ids = Append(@, chunk.chunk_id)]

\* except Exception: logger.error(...): the chunk whose pickle.dump raised
\* is left out, its file already opened for writing.
SkipChunk(st, chunk, chunk_path) ==
  [st EXCEPT !.files = [st.files EXCEPT ![chunk_path] = CorruptFile]]

\* The loop of add_chunks over the batch; st carries self.index of the
\* conversation, the files and chunk_ids.  A chunk whose pickle.dump raises
\* is logged and skipped, its file already opened for writing.
RECURSIVE AddLoop(_, _, _)
AddLoop(batch, conversation_id, st) ==
  IF batch = <<>> THEN st
  ELSE
    LET chunk == Head(batch)
        chunk_path == _get_chunk_path(chunk.chunk_id, conversation_id)
    IN IF chunk.picklable
       THEN AddLoop(Tail(batch), conversation_id,
              [idx |-> DictSet(st.idx, IndexEntry(chunk, chunk_path)),
               files |-> [st.files EXCEPT ![chunk_path] = PickleFile(chunk)],
               chunk_ids |-> Append(st.chunk_ids, chunk.chunk_id)])
       ELSE AddLoop(Tail(batch), conversation_id,
              SkipChunk(st, chunk, chunk_path))

\* _save_index: index.json of the conversation's directory is overwritten
\* with self.index.get(conversation_id, {}).
_save_index(idx_file, idx, conversation_id) ==
  [idx_file EXCEPT ![ensure_embeddings_dir(conversation_id)] =
     [exists |-> TRUE, entries |-> idx[conversation_id]]]

\* Variant of add_chunks: the index of the conversation is built anew from
\* the batch, the entries it had are dropped.
add_chunks_fresh_index(idx, fls, idx_file, batch, conversation_id) ==
  IF batch = <<>>
  THEN [index |-> idx, files |-> fls, index_file |-> idx_file,
        chunk_ids |-> <<>>]
  ELSE
    LET st == AddLoop(batch, conversation_id,
                [idx |-> <<>>, files |-> fls, chunk_ids |-> <<>>])
        idx2 == [idx EXCEPT ![conversation_id] = st.idx]
    IN [index |-> idx2, files |-> st.files,
        index_file |-> _save_index(idx_file, idx2, conversation_id),
        chunk_ids |-> st.chunk_ids]

\* Variant of add_chunks: an empty batch is not returned early, the index
\* of the namespace is saved all the same.
add_chunks_no_early_return(idx, fls, idx_file, batch, conversation_id) ==
  LET st == AddLoop(batch, conversation_id,
              [idx |-> idx[conversation_id], files |-> fls,
               chunk_ids |-> <<>>])
      idx2 == [idx EXCEPT ![conversation_id] = st.idx]
  IN [index |-> idx2, files |-> st.files,
      index_file |-> _save_index(idx_file, idx2, conversation_id),
      chunk_ids |-> st.chunk_ids]

\* add_chunks: the store after the call and the returned chunk ids.
add_chunks(idx, fls, idx_file, batch, conversation_id) ==
  IF batch = <<>>
  THEN [index |-> idx, files |-> fls, index_file |-> idx_file,
        chunk_ids |-> <<>>]
  ELSE
    LET st == AddLoop(batch, conversation_id,
                [idx |-> idx[conversation_id], files |-> fls,
                 chunk_ids |-> <<>>])
        idx2 == [idx EXCEPT ![conversation_id] = st.idx]
    IN [index |-> idx2, files |-> st.files,
        index_file |-> _save_index(idx_file, idx2, conversation_id),
        chunk_ids |-> st.chunk_ids]

\* get_chunk: found = FALSE stands for the returned None.
NotFound == [found |-> FALSE, chunk |-> NoChunk]
get_chunk(idx, fls, chunk_id, conversation_id) ==
  IF ~DictHas(idx[conversation_id], chunk_id) THEN NotFound
  ELSE
    LET f == fls[DictGet(idx[conversation_id], chunk_id).path]
    IN IF f.kind = "chunk" THEN [found |-> TRUE, chunk |-> f.chunk]
       ELSE NotFound

\* The index entries of a document in a namespace.
DocumentEntries(idx, conversation_id, document_id) ==
  {i \in 1..Len(idx[conversation_id]) :
     idx[conversation_id][i].document_id = document_id}

\* The loop of delete_document over document_chunks (the ids found by the
\* scan); st carries the conversation's index dict, the files and
\* deleted_count.  failing is the set of chunk ids whose os.remove raises:
\* such a chunk is logged and keeps its file and its index entry.
RECURSIVE DeleteLoop(_, _, _)
DeleteLoop(document_chunks, failing, st) ==
  IF document_chunks = <<>> THEN st
  ELSE
    LET chunk_id == Head(document_chunks)
        chunk_path == DictGet(st.idx, chunk_id).path
    IN IF st.files[chunk_path].kind # "none" /\ chunk_id \in failing
       THEN DeleteLoop(Tail(document_chunks), failing, st)
       ELSE DeleteLoop(Tail(document_chunks), failing,
              [idx |-> SelectSeq(st.idx, LAMBDA e : e.chunk_id # chunk_id),
               files |-> [st.files EXCEPT ![chunk_path] = NoFile],
               deleted_count |-> st.deleted_count + 1])

\* Variant of delete_document: the chunk files are removed, the index
\* entries stay.
delete_document_keep_entries(idx, fls, idx_file, document_id, conversation_id, failing) ==
  LET conv_index == idx[conversation_id]
      found == SelectSeq(conv_index, LAMBDA e : e.document_id = document_id)
      document_chunks == [i \in 1..Len(found) |-> found[i].chunk_id]
      st == DeleteLoop(document_chunks, failing,
              [idx |-> conv_index, files |-> fls, deleted_count |-> 0])
  IN [index |-> idx, files |-> st.files,
      index_file |-> IF st.deleted_count > 0
                     THEN _save_index(idx_file, idx, conversation_id)
                     ELSE idx_file,
      deleted_count |-> st.deleted_count]

\* Variant of delete_document: the scan does not compare the document id,
\* every entry of the namespace is taken.
delete_document_all(idx, fls, idx_file, document_id, conversation_id, failing) ==
  LET conv_index == idx[conversation_id]
      document_chunks == [i \in 1..Len(conv_index) |-> conv_index[i].chunk_id]
      st == DeleteLoop(document_chunks, failing,
              [idx |-> conv_index, files |-> fls, deleted_count |-> 0])
      idx2 == [idx EXCEPT ![conversation_id] = st.idx]
  IN [index |-> idx2, files |-> st.files,
      index_file |-> IF st.deleted_count > 0
                     THEN _save_index(idx_file, idx2, conversation_id)
                     ELSE idx_file,
      deleted_count |-> st.deleted_count]

\* delete_document: the store after the call and the returned count.  The
\* index is saved only when something was deleted.
delete_document(idx, fls, idx_file, document_id, conversation_id, failing) ==
  LET conv_index == idx[conversation_id]
      found == SelectSeq(conv_index, LAMBDA e : e.document_id = document_id)
      document_chunks == [i \in 1..Len(found) |-> found[i].chunk_id]
      st == DeleteLoop(document_chunks, failing,
              [idx |-> conv_index, files |-> fls, deleted_count |-> 0])
      idx2 == [idx EXCEPT ![conversation_id] = st.idx]
  IN [index |-> idx2, files |-> st.files,
      index_file |-> IF st.deleted_count > 0
                     THEN _save_index(idx_file, idx2, conversation_id)
                     ELSE idx_file,
      deleted_count |-> st.deleted_count]

\* A filters dict is a function from keys to values; no filters is the
\* empty one (None and {} are both falsy).
NoFilters == <<>>

\* _matches_filters: the document_id key is compared with the entry's
\* document_id; any other key rejects the entry only when the metadata has
\* the key with another value.
_matches_filters(chunk_info, filters) ==
  \A key \in DOMAIN filters :
     IF key = "document_id"
     THEN chunk_info.document_id = filters[key]
     ELSE ~(key \in DOMAIN chunk_info.metadata
            /\ chunk_info.metadata[key] # filters[key])

\* Vectors are tuples of integers of one dimension.
Dot(u, v) == IF Len(u) = 0 THEN 0 ELSE
  LET RECURSIVE Sum(_)
      Sum(i) == IF i = 0 THEN 0 ELSE u[i] * v[i] + Sum(i - 1)
  IN Sum(Len(u))

\* _compute_similarity: dot / (|q| * |c|), kept exact as the numerator and
\* the square of the denominator; 0.0 when either norm is zero.
_compute_similarity(query_embedding, chunk_embedding) ==
  LET den2 == Dot(query_embedding, query_embedding)
                * Dot(chunk_embedding, chunk_embedding)
  IN IF den2 = 0 THEN [num |-> 0, den2 |-> 1]
     ELSE [num |-> Dot(query_embedding, chunk_embedding), den2 |-> den2]

\* a > b for two similarities.
SimGreater(a, b) ==
  IF a.num >= 0 /\ b.num < 0 THEN TRUE
  ELSE IF a.num < 0 /\ b.num >= 0 THEN FALSE
  ELSE IF a.num >= 0
       THEN a.num * a.num * b.den2 > b.num * b.num * a.den2
       ELSE a.num * a.num * b.den2 < b.num * b.num * a.den2

\* results.sort(key=similarity, reverse=True): a stable descending sort.
RECURSIVE SortDescending(_)
SortDescending(results) ==
  IF results = <<>> THEN <<>>
  ELSE
    LET sorted == SortDescending(SubSeq(results, 1, Len(results) - 1))
        last == results[Len(results)]
        before == SelectSeq(sorted,
                    LAMBDA r : ~SimGreater(last.similarity, r.similarity))
        after == SelectSeq(sorted,
                    LAMBDA r : SimGreater(last.similarity, r.similarity))
    IN before \o <<last>> \o after

\* The order search_chunks gives its candidates.
SearchOrder(results) == SortDescending(results)

\* The loop of search_chunks over the conversation's index: an entry is a
\* candidate when it passes the filters and its chunk loads with an
\* embedding; the candidate carries its similarity (metadata["score"]).
RECURSIVE SearchLoop(_, _, _, _, _, _)
SearchLoop(conv_index, idx, fls, query_embedding, conversation_id, filters) ==
  IF conv_index = <<>> THEN <<>>
  ELSE
    LET chunk_info == Head(conv_index)
        rest == SearchLoop(Tail(conv_index), idx, fls, query_embedding,
                           conversation_id, filters)
        got == get_chunk(idx, fls, chunk_info.chunk_id, conversation_id)
    IN IF filters # NoFilters /\ ~_matches_filters(chunk_info, filters)
       THEN rest
       ELSE IF ~got.found \/ got.chunk.embedding = <<>>
       THEN rest
       ELSE <<[chunk |-> got.chunk,
               similarity |-> _compute_similarity(query_embedding,
                                                  got.chunk.embedding)]>>
            \o rest

\* search_chunks: results[:top_k] of the sorted candidates (top_k >= 0).
search_chunks(idx, fls, query_embedding, top_k, conversation_id, filters) ==
  LET results == SearchOrder(SearchLoop(idx[conversation_id], idx, fls,
                                query_embedding, conversation_id, filters))
  IN SubSeq(results, 1, IF top_k < Len(results) THEN top_k ELSE Len(results))

\* Variant of DocumentSummary: the metadata is taken from the document's
\* last entry.
DocumentSummaryLast(conv_index, doc_id) ==
  LET doc_chunks == SelectSeq(conv_index, LAMBDA e : e.document_id = doc_id)
  IN [document_id |-> doc_id, chunk_count |-> Len(doc_chunks),
      metadata |-> doc_chunks[Len(doc_chunks)].metadata]

\* The summary list_documents compiles for one document id: the number of
\* its entries and the metadata of the first one in index order.
DocumentSummary(conv_index, doc_id) ==
  LET doc_chunks == SelectSeq(conv_index, LAMBDA e : e.document_id = doc_id)
  IN [document_id |-> doc_id, chunk_count |-> Len(doc_chunks),
      metadata |-> doc_chunks[1].metadata]

\* list_documents: one summary per document id of the index (`if doc_id:`
\* leaves out an entry without one, document_id 0 here), in the iteration
\* order of a Python set (any order): kept as a set.
list_documents(idx, conversation_id) ==
  LET conv_index == idx[conversation_id]
      document_ids == {conv_index[i].document_id : i \in 1..Len(conv_index)}
                        \ {0}
  IN {DocumentSummary(conv_index, doc_id) : doc_id \in document_ids}

\* _load_indexes of a fresh store: the index.json of every conversation
\* directory is loaded under the directory's name, the root index.json
\* under None.  json.load returns the strings and integers of the entries
\* as json.dump wrote them.
_load_indexes(idx_file) ==
  [c \in StoreNamespaces |->
     IF c = None
     THEN IF idx_file["base"].exists THEN idx_file["base"].entries ELSE <<>>
     ELSE IF c \in Dirs \ {"base"} /\ idx_file[c].exists
          THEN idx_file[c].entries
          ELSE <<>>]

\* --------------------------------------------------- embedding provider
\* get_embedding_model_instance: the singleton is created, then
\* initialize() is awaited; initialize() raises when the backend's
\* credentials/model are missing, leaving the created instance in place.
get_embedding_model_instance(model, key_set) ==
  IF model = None
  THEN IF key_set THEN [model |-> "ready", raised |-> FALSE]
       ELSE [model |-> "uninit", raised |-> TRUE]
  ELSE [model |-> model, raised |-> FALSE]

\* The vector the backend computes for a text.
Embed(text) == <<text, 1>>

\* What one get_embeddings call can do: return one vector per text ("ok"),
\* raise ("error": non-200 answer, model failure), or return fewer vectors
\* than texts ("short": a response with fewer data items).  An instance
\* whose initialize() never succeeded retries it and raises.
EmbedOutcomes(model) ==
  IF model = "ready" THEN {"ok", "error", "short"} ELSE {"uninit"}

EmbedError(outcome) ==
  CASE outcome = "error" -> "ProviderError"
    [] outcome = "short" -> "IndexError"
    [] OTHER -> "ValueError"

\* ------------------------------------------------------------- segmenter
\* chunker.split_text as the pipeline sees it: n chunks, chunk j carrying
\* its text and the metadata chunk_index = j - 1, total_chunks = n.
SplitText(d, n) ==
  [j \in 1..n |->
     [text |-> uuid4(d, j),
      metadata |-> [chunk_index |-> j - 1, total_chunks |-> n]]]

\* -------------------------------------------------------------- initial
NoResult == [success |-> FALSE, chunk_count |-> 0, error |-> None,
             stage |-> "none"]
NoResponse == [http |-> 0, status |-> "none"]
NoAck == [pc |-> "none", log_len |-> 0]
NoStatusResponse ==
  [document_id |-> 0, conversation_id |-> None, http |-> 0,
   status |-> "none", processing_stage |-> "none"]

\* No call on the store yet.  previous_count of a delete_document call is
\* the count returned by the call right before it when that was a
\* delete_document of the same document and namespace (history).
NoCall ==
  [op |-> "none", conversation_id |-> None, document_id |-> 0,
   chunk |-> NoChunk, chunk_ids |-> <<>>, deleted_count |-> 0,
   query_embedding |-> <<>>, top_k |-> 0, filters |-> NoFilters,
   results |-> <<>>, documents |-> {}, previous_count |-> Absent,
   batch |-> <<>>]

\* No split_text call: a TextChunker not yet built.  chunk_size and
\* chunk_overlap are the chunker's attributes, text and metadata the
\* arguments of the call, chunks the returned list once returned is TRUE.
NoSplit ==
  [strategy |-> "none", chunk_size |-> 0, chunk_overlap |-> 0,
   text |-> <<>>, metadata |-> <<>>, returned |-> FALSE, chunks |-> <<>>]

\* The tasks that call the store's writing operations: an ingestion that
\* reached add_chunks, a delete request.  A task is idle, pending (created,
\* its call not yet run by the event loop) or returned; turn is the order
\* of return, removed the ids a delete_document took out of the index,
\* concurrent whether another task was pending when the call ran (history).
Writers == {1, 2}
NoWriter ==
  [state |-> "idle", op |-> "none", conversation_id |-> None,
   document_id |-> 0, chunk |-> NoChunk, chunk_ids |-> <<>>,
   deleted_count |-> 0, removed |-> {}, turn |-> 0, concurrent |-> FALSE]

\* No dimension: _embedding_dim is None.
NoDim == 0
\* The dimension the local model reports (test_embedding.shape[1]) and the
\* one OpenAIEmbedding.__init__ looks up for its model name.
LocalDim == 384
OpenAIDim == 1536

\* SentenceTransformerEmbedding(model_name) / OpenAIEmbedding(model_name)
\* right after construction.  api_key: OPENAI_API_KEY was set and not empty
\* (remote backend only); model: self.model is not None (local backend
\* only); initialized: history, initialize() has completed successfully;
\* returned_dims: history, the values embedding_dim has returned.
NewProvider(backend, api_key) ==
  [backend |-> backend, api_key |-> api_key, model |-> FALSE,
   _embedding_dim |-> IF backend = "openai" THEN OpenAIDim ELSE NoDim,
   initialized |-> FALSE, returned_dims |-> {}]
NoProvider == NewProvider("none", FALSE)

NoError == [type |-> "None", status |-> 0, body |-> ""]

\* No call on the provider yet.  requests, responses: the sub-batches the
\* call posted and the answers it got; model_calls: the calls it made to
\* the SentenceTransformer model; initialized: whether initialize() had
\* completed successfully when the call started.
NoEmbedCall ==
  [op |-> "none", texts |-> <<>>, outcome |-> "none", result |-> <<>>,
   dim |-> NoDim, error |-> NoError, requests |-> <<>>, responses |-> <<>>,
   model_calls |-> <<>>, initialized |-> FALSE]

\* The service right after start: nothing stored, no request yet.
Requests == 1..MaxRequests
NoRequest == [pc |-> "idle", dependency |-> "none", got |-> "none"]

Started ==
  /\ embedding_model = None
  /\ _storage = None
  /\ requests = [r \in Requests |-> NoRequest]
  /\ running = 0
  /\ index = [c \in StoreNamespaces |-> <<>>]
  /\ files = [p \in Dirs \X ChunkIds |-> NoFile]
  /\ index_file = [dir \in Dirs |-> [exists |-> FALSE, entries |-> <<>>]]
  /\ pc = [d \in Docs |-> "idle"]
  /\ conv = [d \in Docs |-> None]
  /\ mode = [d \in Docs |-> "none"]
  /\ supplied = [d \in Docs |-> FALSE]
  /\ status_file = [p \in Dirs \X Docs |-> NoStatus]
  /\ status_log = [d \in Docs |-> <<>>]
  /\ result = [d \in Docs |-> NoResult]
  /\ chunks_data = [d \in Docs |-> <<>>]
  /\ chunks = [d \in Docs |-> <<>>]
  /\ batch_i = [d \in Docs |-> 0]
  /\ embed_calls = [d \in Docs |-> 0]
  /\ fault = [d \in Docs |-> "none"]
  /\ response = [d \in Docs |-> NoResponse]
  /\ ack = [d \in Docs |-> NoAck]
  /\ status_response = NoStatusResponse
  /\ op_log = <<>>
  /\ store_call = NoCall
  /\ n_calls = 0
  /\ writers = [w \in Writers |-> NoWriter]

\* The settings are read once, at start.
Init ==
  /\ embedding_batch_size \in 1..MaxBatchSize
  /\ api_key_set \in BOOLEAN
  /\ Started
  /\ split_call = NoSplit
  /\ provider = NoProvider
  /\ embed_call = NoEmbedCall

\* ------------------------------------------------ update_document_status
\* The status file of the document is overwritten with status_data.
update_document_status(d, status, stage, chunk_count, error) ==
  LET status_data == StatusData(status, stage, chunk_count, error)
  IN /\ status_file' =
          [status_file EXCEPT ![<<ensure_embeddings_dir(conv[d]), d>>] =
             status_data]
     /\ status_log' = [status_log EXCEPT ![d] = Append(@, status_data)]

\* ---------------------------------------------------- process_document
\* Lines 112-121: the run starts by persisting the initialization record.
pd_start(d) ==
  /\ pc[d] \in {"queued", "start"}
  /\ update_document_status(d, "processing", "initialization", Absent, None)
  /\ pc' = [pc EXCEPT ![d] = "initialization"]
  /\ UNCHANGED <<cfg_vars, dep_vars, split_call, provider_vars, embedding_model, store_vars, conv, mode, supplied,
                 result, chunks_data, chunks, batch_i, embed_calls, fault, response,
                 ack, status_response, op_log, call_vars>>

\* Lines 123-157: collaborators are resolved when not passed in (outside
\* the try: an exception leaves process_document), the result dict is
\* built, and the text_extraction record is persisted.
pd_resolve(d) ==
  /\ pc[d] = "initialization"
  /\ LET dep == IF supplied[d]
                THEN [model |-> embedding_model, raised |-> FALSE]
                ELSE get_embedding_model_instance(embedding_model, api_key_set)
     IN /\ embedding_model' = dep.model
        /\ IF dep.raised
           THEN /\ fault' = [fault EXCEPT ![d] = "initialization"]
                /\ pc' = [pc EXCEPT ![d] = "raised"]
                /\ UNCHANGED <<status_file, status_log, result>>
           ELSE /\ result' = [result EXCEPT ![d] =
                                [NoResult EXCEPT !.stage = "text_extraction"]]
                /\ update_document_status(d, "processing", "text_extraction",
                                          Absent, None)
                /\ pc' = [pc EXCEPT ![d] = "text_extraction"]
                /\ UNCHANGED fault
  /\ UNCHANGED <<cfg_vars, dep_vars, split_call, provider_vars, store_vars, conv, mode, supplied, chunks_data,
                 chunks, batch_i, embed_calls, response, ack, status_response,
                 op_log, call_vars>>

\* Variant of pd_except: the failed record names the initialization stage
\* whatever stage the result names.
pd_except_first_stage(d, error) ==
  /\ result' = [result EXCEPT ![d].error = error]
  /\ update_document_status(d, "failed", "initialization", Absent, error)
  /\ pc' = [pc EXCEPT ![d] = "returned"]

\* Lines 243-264, the except branch: the error is put into the result, the
\* failed record is persisted with the stage the result names, and the
\* result is returned.
pd_except(d, error) ==
  /\ result' = [result EXCEPT ![d].error = error]
  /\ update_document_status(d, "failed", result[d].stage, Absent, error)
  /\ pc' = [pc EXCEPT ![d] = "returned"]

\* Variant of pd_extract: an extraction error is swallowed and the run goes
\* on with an empty text.
pd_extract_swallow(d) ==
  /\ pc[d] = "text_extraction"
  /\ \E ok \in BOOLEAN :
       /\ result' = [result EXCEPT ![d].stage = "chunking"]
       /\ update_document_status(d, "processing", "chunking", Absent, None)
       /\ pc' = [pc EXCEPT ![d] = "chunking"]
       /\ fault' = [fault EXCEPT ![d] =
                      IF ok THEN @ ELSE "text_extraction"]
  /\ UNCHANGED <<cfg_vars, dep_vars, split_call, provider_vars, embedding_model, store_vars, conv, mode, supplied,
                 chunks_data, chunks, batch_i, embed_calls, response, ack,
                 status_response, op_log, call_vars>>

\* Lines 159-171: the extraction capability is called; on success the
\* chunking record is persisted.
pd_extract(d) ==
  /\ pc[d] = "text_extraction"
  /\ \E ok \in BOOLEAN :
       IF ok
       THEN /\ result' = [result EXCEPT ![d].stage = "chunking"]
            /\ update_document_status(d, "processing", "chunking", Absent, None)
            /\ pc' = [pc EXCEPT ![d] = "chunking"]
            /\ UNCHANGED fault
       ELSE /\ fault' = [fault EXCEPT ![d] = "text_extraction"]
            /\ pd_except(d, "ExtractionError")
  /\ UNCHANGED <<cfg_vars, dep_vars, split_call, provider_vars, embedding_model, store_vars, conv, mode, supplied,
                 chunks_data, chunks, batch_i, embed_calls, response, ack,
                 status_response, op_log, call_vars>>

\* Lines 173-188: the segmenter runs; on success the embedding record is
\* persisted with the chunk count and the embedding loop is set up.
pd_chunk(d) ==
  /\ pc[d] = "chunking"
  /\ \E ok \in BOOLEAN, n \in 0..MaxChunks :
       IF ok
       THEN /\ chunks_data' = [chunks_data EXCEPT ![d] = SplitText(d, n)]
            /\ result' = [result EXCEPT ![d].stage = "embedding"]
            /\ update_document_status(d, "processing", "embedding", n, None)
            /\ chunks' = [chunks EXCEPT ![d] = <<>>]
            /\ batch_i' = [batch_i EXCEPT ![d] = 0]
            /\ pc' = [pc EXCEPT ![d] = "embedding"]
            /\ UNCHANGED fault
       ELSE /\ n = 0
            /\ fault' = [fault EXCEPT ![d] = "chunking"]
            /\ pd_except(d, "ValueError")
            /\ UNCHANGED <<chunks_data, chunks, batch_i>>
  /\ UNCHANGED <<cfg_vars, dep_vars, split_call, provider_vars, embedding_model, store_vars, conv, mode, supplied,
                 embed_calls, response, ack, status_response, op_log, call_vars>>

Min(a, b) == IF a <= b THEN a ELSE b

\* chunks_data[i:i+batch_size] of the embedding loop (i counted from 0).
Batch(data, i, size) == SubSeq(data, i + 1, Min(i + size, Len(data)))

\* Variant of BatchChunks: every chunk of a batch takes the batch's first
\* vector.
BatchChunksFirstVector(d, batch, embeddings, first) ==
  [j \in 1..Len(batch) |->
     Chunk(uuid4(d, first + j), d, batch[j].text, embeddings[1],
           batch[j].metadata, TRUE)]

\* Lines 198-206: the Chunk objects of one batch, chunk j of the batch
\* taking embeddings[j]; first is the number of Chunk objects built before.
BatchChunks(d, batch, embeddings, first) ==
  [j \in 1..Len(batch) |->
     Chunk(uuid4(d, first + j), d, batch[j].text, embeddings[j],
           batch[j].metadata, TRUE)]

\* Variant of pd_embed_batch: a failed batch is skipped and the loop goes
\* on with the next one.
pd_embed_batch_skip(d) ==
  /\ pc[d] = "embedding"
  /\ batch_i[d] < Len(chunks_data[d])
  /\ embed_calls' = [embed_calls EXCEPT ![d] = @ + 1]
  /\ LET batch == Batch(chunks_data[d], batch_i[d], embedding_batch_size)
         texts == [j \in 1..Len(batch) |-> batch[j].text]
         embeddings == [j \in 1..Len(texts) |-> Embed(texts[j])]
     IN \E outcome \in EmbedOutcomes(embedding_model) :
          /\ chunks' = [chunks EXCEPT ![d] =
                IF outcome = "ok"
                THEN @ \o BatchChunks(d, batch, embeddings, Len(@))
                ELSE @]
          /\ fault' = [fault EXCEPT ![d] =
                         IF outcome = "ok" THEN @ ELSE "embedding"]
          /\ batch_i' = [batch_i EXCEPT ![d] = @ + embedding_batch_size]
          /\ UNCHANGED <<pc, result, status_file, status_log>>
  /\ UNCHANGED <<cfg_vars, dep_vars, split_call, provider_vars, embedding_model, store_vars, conv, mode, supplied,
                 chunks_data, response, ack, status_response, op_log, call_vars>>

\* Lines 189-206: one iteration of the embedding loop: the provider is
\* asked for the vectors of the batch's texts.
pd_embed_batch(d) ==
  /\ pc[d] = "embedding"
  /\ batch_i[d] < Len(chunks_data[d])
  /\ embed_calls' = [embed_calls EXCEPT ![d] = @ + 1]
  /\ LET batch == Batch(chunks_data[d], batch_i[d], embedding_batch_size)
         texts == [j \in 1..Len(batch) |-> batch[j].text]
         embeddings == [j \in 1..Len(texts) |-> Embed(texts[j])]
     IN \E outcome \in EmbedOutcomes(embedding_model) :
          IF outcome = "ok"
          THEN /\ chunks' = [chunks EXCEPT ![d] =
                     @ \o BatchChunks(d, batch, embeddings, Len(@))]
               /\ batch_i' = [batch_i EXCEPT ![d] = @ + embedding_batch_size]
               /\ UNCHANGED <<pc, result, status_file, status_log, fault>>
          ELSE /\ fault' = [fault EXCEPT ![d] = "embedding"]
               /\ pd_except(d, EmbedError(outcome))
               /\ UNCHANGED <<chunks, batch_i>>
  /\ UNCHANGED <<cfg_vars, dep_vars, split_call, provider_vars, embedding_model, store_vars, conv, mode, supplied,
                 chunks_data, response, ack, status_response, op_log, call_vars>>

\* Variant of pd_embed_done: the storage stage is entered without its
\* record being persisted first.
pd_embed_done_unrecorded(d) ==
  /\ pc[d] = "embedding"
  /\ batch_i[d] >= Len(chunks_data[d])
  /\ result' = [result EXCEPT ![d].stage = "storage"]
  /\ pc' = [pc EXCEPT ![d] = "storage"]
  /\ UNCHANGED <<cfg_vars, dep_vars, split_call, provider_vars, embedding_model, store_vars, conv, mode, supplied,
                 status_file, status_log, chunks_data, chunks, batch_i,
                 embed_calls, fault, response, ack, status_response, op_log, call_vars>>

\* Lines 208-216: the loop is over; the storage record is persisted.
pd_embed_done(d) ==
  /\ pc[d] = "embedding"
  /\ batch_i[d] >= Len(chunks_data[d])
  /\ result' = [result EXCEPT ![d].stage = "storage"]
  /\ update_document_status(d, "processing", "storage", Len(chunks[d]), None)
  /\ pc' = [pc EXCEPT ![d] = "storage"]
  /\ UNCHANGED <<cfg_vars, dep_vars, split_call, provider_vars, embedding_model, store_vars, conv, mode, supplied,
                 chunks_data, chunks, batch_i, embed_calls, fault, response, ack,
                 status_response, op_log, call_vars>>

\* Lines 218-241: the chunks are handed to the store; add_chunks raises
\* only before its loop (directory creation), its per-chunk and index
\* write errors being swallowed.  Then the complete record is persisted
\* and the result returned.  failing is the set of positions in chunks
\* whose chunk file cannot be written: add_chunks logs and skips them.
pd_store_writes(d, failing) ==
  /\ pc[d] = "storage"
  /\ \E ok \in BOOLEAN :
       IF ok
       THEN LET written == [j \in 1..Len(chunks[d]) |->
                              IF j \in failing
                              THEN [chunks[d][j] EXCEPT !.picklable = FALSE]
                              ELSE chunks[d][j]]
                st == add_chunks(index, files, index_file, written, conv[d])
            IN /\ index' = st.index
               /\ files' = st.files
               /\ index_file' = st.index_file
               /\ result' = [result EXCEPT ![d].success = TRUE,
                                           ![d].chunk_count = Len(st.chunk_ids)]
               /\ update_document_status(d, "indexed", "complete",
                                         Len(st.chunk_ids), None)
               /\ pc' = [pc EXCEPT ![d] = "returned"]
               /\ UNCHANGED fault
       ELSE /\ chunks[d] # <<>>
            /\ fault' = [fault EXCEPT ![d] = "storage"]
            /\ pd_except(d, "OSError")
            /\ UNCHANGED store_vars
  /\ UNCHANGED <<cfg_vars, dep_vars, split_call, provider_vars, embedding_model, conv, mode, supplied, chunks_data,
                 chunks, batch_i, embed_calls, response, ack, status_response,
                 op_log, call_vars>>

\* The storage step on a filesystem where every chunk file can be written.
pd_store(d) == pd_store_writes(d, {})

\* ------------------------------------------------------- upload_document
\* The least document id not yet used: every upload draws a fresh uuid.
Fresh(d) == pc[d] = "idle" /\ \A e \in Docs : e < d => pc[e] # "idle"

\* POST /rag/documents up to the scheduling of the pipeline: the
\* dependencies are resolved (an exception there is an HTTP 500), the file
\* is saved (an error there is re-raised as HTTP 500; filename_ok = the
\* file name can be created below the document directory), then the run is
\* queued as a background task and acknowledged as pending, or awaited.
upload_document(d, conversation_id, process_async, filename_ok) ==
  /\ Fresh(d)
  /\ LET dep == get_embedding_model_instance(embedding_model, api_key_set)
     IN /\ embedding_model' = dep.model
        /\ conv' = [conv EXCEPT ![d] = conversation_id]
        /\ supplied' = [supplied EXCEPT ![d] = TRUE]
        /\ mode' = [mode EXCEPT ![d] =
                      IF process_async THEN "async" ELSE "sync"]
        /\ IF dep.raised \/ ~filename_ok
           THEN /\ response' = [response EXCEPT ![d] =
                                  [http |-> 500, status |-> "none"]]
                /\ ack' = [ack EXCEPT ![d] = [pc |-> "rejected", log_len |-> 0]]
                /\ pc' = [pc EXCEPT ![d] = "rejected"]
           ELSE IF process_async
           THEN /\ response' = [response EXCEPT ![d] =
                                  [http |-> 200, status |-> "pending"]]
                /\ ack' = [ack EXCEPT ![d] = [pc |-> "queued", log_len |-> 0]]
                /\ pc' = [pc EXCEPT ![d] = "queued"]
           ELSE /\ pc' = [pc EXCEPT ![d] = "start"]
                /\ UNCHANGED <<response, ack>>
  /\ UNCHANGED <<cfg_vars, dep_vars, split_call, provider_vars, store_vars, status_file, status_log, result,
                 chunks_data, chunks, batch_i, embed_calls, fault, status_response,
                 op_log, call_vars>>

\* Variant of upload_respond: process_result["success"] is not looked at.
upload_respond_indexed(d) ==
  /\ mode[d] = "sync"
  /\ pc[d] \in {"returned", "raised"}
  /\ response[d] = NoResponse
  /\ response' = [response EXCEPT ![d] = [http |-> 200, status |-> "indexed"]]
  /\ ack' = [ack EXCEPT ![d] = [pc |-> pc[d], log_len |-> Len(status_log[d])]]
  /\ UNCHANGED <<cfg_vars, dep_vars, split_call, provider_vars, embedding_model, store_vars, pc, conv, mode,
                 supplied, status_file, status_log, result, chunks_data,
                 chunks, batch_i, embed_calls, fault, status_response, op_log, call_vars>>

\* Variant of upload_respond: a failed pipeline is answered with an HTTP
\* error.
upload_respond_raise(d) ==
  /\ mode[d] = "sync"
  /\ pc[d] \in {"returned", "raised"}
  /\ response[d] = NoResponse
  /\ response' = [response EXCEPT ![d] =
       IF pc[d] = "returned" /\ result[d].success
       THEN [http |-> 200, status |-> "indexed"]
       ELSE [http |-> 500, status |-> "none"]]
  /\ ack' = [ack EXCEPT ![d] = [pc |-> pc[d], log_len |-> Len(status_log[d])]]
  /\ UNCHANGED <<cfg_vars, dep_vars, split_call, provider_vars, embedding_model, store_vars, pc, conv, mode,
                 supplied, status_file, status_log, result, chunks_data,
                 chunks, batch_i, embed_calls, fault, status_response, op_log, call_vars>>

\* Lines 309-335 of the synchronous upload: process_document has returned
\* its result or raised; the response carries indexed or failed.
upload_respond(d) ==
  /\ mode[d] = "sync"
  /\ pc[d] \in {"returned", "raised"}
  /\ response[d] = NoResponse
  /\ response' = [response EXCEPT ![d] =
       [http |-> 200,
        status |-> IF pc[d] = "returned" /\ result[d].success
                   THEN "indexed" ELSE "failed"]]
  /\ ack' = [ack EXCEPT ![d] = [pc |-> pc[d], log_len |-> Len(status_log[d])]]
  /\ UNCHANGED <<cfg_vars, dep_vars, split_call, provider_vars, embedding_model, store_vars, pc, conv, mode,
                 supplied, status_file, status_log, result, chunks_data,
                 chunks, batch_i, embed_calls, fault, status_response, op_log, call_vars>>

\* process_document called without collaborators (storage = None,
\* embedding_model = None), by a caller other than the upload endpoint.
process_document(d, conversation_id) ==
  /\ Fresh(d)
  /\ conv' = [conv EXCEPT ![d] = conversation_id]
  /\ supplied' = [supplied EXCEPT ![d] = FALSE]
  /\ mode' = [mode EXCEPT ![d] = "direct"]
  /\ pc' = [pc EXCEPT ![d] = "start"]
  /\ UNCHANGED <<cfg_vars, dep_vars, split_call, provider_vars, embedding_model, store_vars, status_file,
                 status_log, result, chunks_data, chunks, batch_i,
                 embed_calls, fault, response, ack, status_response, op_log, call_vars>>

\* --------------------------------------------------- get_document_status
\* DocumentMetadata declares error: Optional[str]; the error entry of a
\* status file is a dict, which fails validation.
DocumentMetadataValid(error) == error = None

\* GET /rag/documents/{document_id}: the status file of the namespace's
\* directory is read if it exists; otherwise the store's documents are
\* searched; otherwise HTTPException(404) is raised, inside the try whose
\* `except Exception` turns every exception into HTTPException(500).
get_document_status(sf, idx, document_id, conversation_id) ==
  LET status_data == sf[<<ensure_embeddings_dir(conversation_id), document_id>>]
      answer(http, status, stage) ==
        [document_id |-> document_id, conversation_id |-> conversation_id,
         http |-> http, status |-> status, processing_stage |-> stage]
  IN IF status_data.exists
     THEN IF DocumentMetadataValid(status_data.error)
          THEN answer(200, status_data.status, status_data.processing_stage)
          ELSE answer(500, "none", "none")
     ELSE IF DocumentEntries(idx, conversation_id, document_id) # {}
          THEN answer(200, "indexed", "complete")
          ELSE answer(500, "none", "none")

status_request(d, conversation_id) ==
  /\ status_response' =
       get_document_status(status_file, index, d, conversation_id)
  /\ UNCHANGED <<cfg_vars, dep_vars, split_call, provider_vars, embedding_model, store_vars, run_vars, op_log, call_vars>>

\* ---------------------------------------------------- direct store calls
\* Fragments handed to the store by its callers.
StoreDocs == 1..MaxStoreDocs
StoreIds == 1..MaxStoreIds
PayloadA == [text |-> 101, embedding |-> <<1, 0>>, metadata |-> [source |-> "a"]]
PayloadB ==
  [text |-> 102, embedding |-> <<>>, metadata |-> [source |-> "b", page |-> 1]]
Payloads == {PayloadA, PayloadB}
\* The content a caller gives the fragment `id` of document `d`.
PayloadOf(id, d) == IF (id + d) % 2 = 0 THEN PayloadA ELSE PayloadB
WellFormed ==
  {Chunk(id, d, PayloadOf(id, d).text, PayloadOf(id, d).embedding,
         PayloadOf(id, d).metadata, TRUE) :
     id \in StoreIds, d \in StoreDocs}
IllFormed == {Chunk(1, 1, 102, <<0, 1>>, [source |-> "a"], FALSE)}
Fragments == WellFormed \cup IllFormed

store_add(batch, conversation_id) ==
  /\ Len(op_log) < MaxStoreOps
  /\ LET st == add_chunks(index, files, index_file, batch, conversation_id)
     IN /\ index' = st.index
        /\ files' = st.files
        /\ index_file' = st.index_file
        /\ op_log' = Append(op_log,
             [op |-> "add", conversation_id |-> conversation_id,
              batch |-> batch, chunk_id |-> 0, chunk_ids |-> st.chunk_ids,
              got |-> NotFound])
  /\ UNCHANGED <<cfg_vars, dep_vars, split_call, provider_vars, embedding_model, run_vars, status_response, call_vars>>

store_get(chunk_id, conversation_id) ==
  /\ Len(op_log) < MaxStoreOps
  /\ op_log' = Append(op_log,
       [op |-> "get", conversation_id |-> conversation_id, batch |-> <<>>,
        chunk_id |-> chunk_id, chunk_ids |-> <<>>,
        got |-> get_chunk(index, files, chunk_id, conversation_id)])
  /\ UNCHANGED <<cfg_vars, dep_vars, split_call, provider_vars, embedding_model, store_vars, run_vars,
                 status_response, call_vars>>

\* ------------------------------------------------------------ TextChunker
\* A text is kept as what split_text makes of it before its loop.  For the
\* simple strategy: the sequence of the lengths of the stripped non-blank
\* segments between separators; <<>> is the empty text and <<0>> a text of
\* blanks only (segments = [text], which strips to nothing).  For the
\* semantic strategy: the sequence of its paragraphs, a paragraph being
\* the lengths of the sentences nltk.sent_tokenize finds in it and whether
\* heading_pattern matches it.  A chunk's text is kept as its length and
\* the pieces of the input it is made of.
SeparatorLen == 1
SegmentLens == {1, 2, 4, 7}
SimpleTexts ==
  {<<0>>} \cup UNION {[1..n -> SegmentLens] : n \in 0..MaxSegments}
Paragraph(is_heading, sentences) ==
  [is_heading |-> is_heading, sentences |-> sentences]
Paragraphs ==
  {Paragraph(TRUE, <<3>>), Paragraph(TRUE, <<3, 1>>),
   Paragraph(FALSE, <<1>>), Paragraph(FALSE, <<3>>),
   Paragraph(FALSE, <<2, 2>>), Paragraph(FALSE, <<6>>),
   Paragraph(FALSE, <<6, 1>>), Paragraph(FALSE, <<2, 2, 2>>)}
SemanticTexts == UNION {[1..n -> Paragraphs] : n \in 0..MaxSegments}
ChunkSizes == 2..MaxChunkSize

\* The metadata dicts a caller passes to split_text: none, the document's
\* metadata, and dicts that use keys the strategies set themselves.
Metadatas ==
  {[key \in {} |-> 0], [source |-> "s"],
   [source |-> "s", chunk_index |-> 7, total_chunks |-> 9],
   [segment_types |-> {"caller"}]}

RECURSIVE SumSeq(_)
SumSeq(q) == IF q = <<>> THEN 0 ELSE Head(q) + SumSeq(Tail(q))

\* len(sep.join(strings)) for strings of the given lengths and a separator
\* of length sep_len.
JoinLen(lens, sep_len) ==
  IF lens = <<>> THEN 0 ELSE SumSeq(lens) + sep_len * (Len(lens) - 1)

\* A piece of text the strategies handle as a whole: src is the position
\* in the input of the segment or paragraph it comes from, len its length,
\* type what it is ("segment", "large" for a slice of a large segment,
\* "heading", "paragraph", "paragraph_split").
Piece(src, len, type) == [src |-> src, len |-> len, type |-> type]
Lens(pieces) == [i \in 1..Len(pieces) |-> pieces[i].len]

\* sep.join(pieces): a chunk's text, kept as its length and its pieces.
Text(pieces, sep_len) ==
  [len |-> JoinLen(Lens(pieces), sep_len), pieces |-> pieces]

\* A metadata dict is a function from its keys to their values.  The
\* dict d after d[key] = e[key] for every key of e.
DictUpdate(d, e) ==
  [key \in DOMAIN d \cup DOMAIN e |->
     IF key \in DOMAIN e THEN e[key] ELSE d[key]]

\* No key beyond chunk_index and total_chunks is set on the chunk; also the
\* caller's metadata when none is passed (metadata or {}).
NoExtra == [key \in {} |-> 0]

\* Variant of AppendChunk: chunk_index counts from one.
AppendChunkFromOne(emitted, chunk_text, extra, metadata) ==
  Append(emitted,
    [text |-> chunk_text,
     metadata |->
       DictUpdate(DictUpdate(metadata, [chunk_index |-> Len(emitted) + 1,
                                        total_chunks |-> 0]),
                  extra)])

\* chunk_metadata = metadata.copy(); chunk_metadata["chunk_index"] =
\* len(chunks); chunk_metadata["total_chunks"] = 0; the keys of extra are
\* set (is_large_segment, segment_index, segment_types, split_type);
\* chunks.append(...): the block both strategies repeat at every emission.
AppendChunk(emitted, chunk_text, extra, metadata) ==
  Append(emitted,
    [text |-> chunk_text,
     metadata |->
       DictUpdate(DictUpdate(metadata, [chunk_index |-> Len(emitted),
                                        total_chunks |-> 0]),
                  extra)])

\* for chunk in chunks: chunk["metadata"]["total_chunks"] = len(chunks)
UpdateTotalChunks(emitted) ==
  [i \in 1..Len(emitted) |->
     [emitted[i] EXCEPT !.metadata.total_chunks = Len(emitted)]]

\* Variant of WindowStep: the windows advance by chunk_size.
WindowStepNoOverlap(chunk_size, chunk_overlap) == chunk_size

\* self.chunk_size - self.chunk_overlap: the step of the windows of a large
\* segment.
WindowStep(chunk_size, chunk_overlap) == chunk_size - chunk_overlap

\* SimpleChunkingStrategy.split_text, the split of a segment larger than
\* chunk_size: for i in range(0, len(segment), chunk_size - chunk_overlap),
\* chunk_text = segment[i:i + chunk_size].
RECURSIVE SplitLargeSegment(_, _, _, _, _, _)
SplitLargeSegment(emitted, segment, i, chunk_size, chunk_overlap, metadata) ==
  IF i >= segment.len THEN emitted
  ELSE
    LET chunk_text == Min(chunk_size, segment.len - i)
        step == WindowStep(chunk_size, chunk_overlap)
    IN SplitLargeSegment(
         IF chunk_text > 0
         THEN AppendChunk(emitted,
                Text(<<Piece(segment.src, chunk_text, "large")>>, 0),
                [is_large_segment |-> TRUE,
                 segment_index |-> i \div step], metadata)
         ELSE emitted,
         segment, i + step, chunk_size, chunk_overlap, metadata)

\* The segments of the previous chunk carried over as overlap: taken from
\* its end while they fit into chunk_overlap.
RECURSIVE OverlapChunks(_, _, _)
OverlapChunks(current_chunk, overlap_chunks, chunk_overlap) ==
  IF current_chunk = <<>> THEN overlap_chunks
  ELSE
    LET previous_segment == current_chunk[Len(current_chunk)]
    IN IF SumSeq(Lens(overlap_chunks)) + previous_segment.len <= chunk_overlap
       THEN OverlapChunks(SubSeq(current_chunk, 1, Len(current_chunk) - 1),
                          <<previous_segment>> \o overlap_chunks,
                          chunk_overlap)
       ELSE overlap_chunks

\* Variant of StartWithOverlap: nothing is carried over.
StartWithoutOverlap(current_chunk, segment, chunk_overlap) == <<segment>>

\* current_chunk = overlap_chunks + [segment]: the chunk opened when a
\* segment did not fit.
StartWithOverlap(current_chunk, segment, chunk_overlap) ==
  Append(OverlapChunks(current_chunk, <<>>, chunk_overlap), segment)

\* The loop of SimpleChunkingStrategy.split_text over the segments; st
\* carries chunks (the list built so far) and current_chunk (its
\* segments).  segment = segment.strip() + separator.
RECURSIVE SimpleLoop(_, _, _, _, _)
SimpleLoop(segments, chunk_size, chunk_overlap, st, metadata) ==
  IF segments = <<>> THEN st
  ELSE
    LET segment == [Head(segments) EXCEPT !.len = @ + SeparatorLen]
        segment_size == segment.len
        current_size == SumSeq(Lens(st.current_chunk))
        flushed == IF st.current_chunk # <<>>
                   THEN AppendChunk(st.chunks, Text(st.current_chunk, 0),
                                    NoExtra, metadata)
                   ELSE st.chunks
    IN IF segment_size > chunk_size
       THEN SimpleLoop(Tail(segments), chunk_size, chunk_overlap,
              [chunks |-> SplitLargeSegment(flushed, segment, 0, chunk_size,
                                            chunk_overlap, metadata),
               current_chunk |-> <<>>], metadata)
       ELSE IF current_size + segment_size <= chunk_size
       THEN SimpleLoop(Tail(segments), chunk_size, chunk_overlap,
              [st EXCEPT !.current_chunk = Append(@, segment)], metadata)
       ELSE SimpleLoop(Tail(segments), chunk_size, chunk_overlap,
              [chunks |-> flushed,
               current_chunk |->
                 StartWithOverlap(st.current_chunk, segment, chunk_overlap)],
              metadata)

\* segments = text.split(separator), blank ones dropped, [text] when none is
\* left: the segments with their positions.
Segments(text) == [i \in 1..Len(text) |-> Piece(i, text[i], "segment")]

\* SimpleChunkingStrategy.split_text
simple_split_text(text, chunk_size, chunk_overlap, metadata) ==
  IF text = <<>> THEN <<>>
  ELSE
    LET st == SimpleLoop(Segments(text), chunk_size, chunk_overlap,
                         [chunks |-> <<>>, current_chunk |-> <<>>], metadata)
        emitted == IF st.current_chunk # <<>>
                   THEN AppendChunk(st.chunks, Text(st.current_chunk, 0),
                                    NoExtra, metadata)
                   ELSE st.chunks
    IN UpdateTotalChunks(emitted)

\* SemanticChunkingStrategy.split_text, the loop over the sentences of a
\* paragraph larger than chunk_size; st carries chunks, current_chunk (its
\* pieces), current_size, current_segment_types, chunk_para (its length,
\* 0 for "") and src, the position of the paragraph.
RECURSIVE SentenceLoop(_, _, _, _)
SentenceLoop(sentences, chunk_size, st, metadata) ==
  IF sentences = <<>> THEN st
  ELSE
    LET sentence == Head(sentences)
    IN IF st.chunk_para + sentence + 1 <= chunk_size
       THEN SentenceLoop(Tail(sentences), chunk_size,
              [st EXCEPT !.chunk_para = IF @ > 0 THEN @ + 1 + sentence
                                        ELSE sentence], metadata)
       ELSE IF st.chunk_para = 0
       THEN SentenceLoop(Tail(sentences), chunk_size,
              [st EXCEPT !.chunk_para = sentence], metadata)
       ELSE
         LET appended ==
               Append(st.current_chunk,
                      Piece(st.src, st.chunk_para, "paragraph_split"))
             types == st.current_segment_types \cup {"paragraph_split"}
         IN IF st.current_size + st.chunk_para > chunk_size
            THEN SentenceLoop(Tail(sentences), chunk_size,
                   [chunks |->
                      AppendChunk(st.chunks,
                        Text(SubSeq(appended, 1, Len(appended) - 1), 2),
                        [segment_types |-> types,
                         split_type |-> "sentence"], metadata),
                    current_chunk |-> <<appended[Len(appended)]>>,
                    current_size |-> st.chunk_para,
                    current_segment_types |-> {"paragraph_split"},
                    chunk_para |-> sentence,
                    src |-> st.src], metadata)
            ELSE SentenceLoop(Tail(sentences), chunk_size,
                   [st EXCEPT !.current_chunk = appended,
                              !.current_segment_types = types,
                              !.current_size = @ + st.chunk_para,
                              !.chunk_para = sentence], metadata)

\* The chunk made of current_chunk, as the semantic strategy emits it.
SemanticFlush(st, metadata) ==
  AppendChunk(st.chunks, Text(st.current_chunk, 2),
              [segment_types |-> st.current_segment_types], metadata)

\* Variant of CloseForHeading: a heading does not close the chunk in
\* progress.
CloseForHeadingNever(paragraph, st0, metadata) == st0

\* if is_heading and current_chunk and current_size > 0: the chunk in
\* progress is emitted and a new one is started before the heading is
\* placed.
CloseForHeading(paragraph, st0, metadata) ==
  IF /\ paragraph.is_heading
     /\ st0.current_chunk # <<>>
     /\ st0.current_size > 0
  THEN [chunks |-> SemanticFlush(st0, metadata),
        current_chunk |-> <<>>,
        current_size |-> 0, current_segment_types |-> {}]
  ELSE st0

\* The loop of SemanticChunkingStrategy.split_text over the paragraphs.
RECURSIVE SemanticLoop(_, _, _, _)
SemanticLoop(paragraphs, chunk_size, st0, metadata) ==
  IF paragraphs = <<>> THEN st0
  ELSE
    LET paragraph == Head(paragraphs)
        para_size == JoinLen(paragraph.sentences, 1)
        segment_type == IF paragraph.is_heading THEN "heading"
                        ELSE "paragraph"
        st == CloseForHeading(paragraph, st0, metadata)
        flushed == IF st.current_chunk # <<>> THEN SemanticFlush(st, metadata)
                   ELSE st.chunks
    IN IF para_size > chunk_size
       THEN LET after == SentenceLoop(paragraph.sentences, chunk_size,
                           [chunks |-> flushed, current_chunk |-> <<>>,
                            current_size |-> 0,
                            current_segment_types |-> {},
                            chunk_para |-> 0, src |-> paragraph.src],
                           metadata)
            IN SemanticLoop(Tail(paragraphs), chunk_size,
                 IF after.chunk_para > 0
                 THEN [chunks |-> after.chunks,
                       current_chunk |->
                         Append(after.current_chunk,
                                Piece(paragraph.src, after.chunk_para,
                                      "paragraph_split")),
                       current_size |-> after.current_size + after.chunk_para,
                       current_segment_types |->
                         after.current_segment_types \cup {"paragraph_split"}]
                 ELSE [chunks |-> after.chunks,
                       current_chunk |-> after.current_chunk,
                       current_size |-> after.current_size,
                       current_segment_types |-> after.current_segment_types],
                 metadata)
       ELSE IF st.current_size
                 + (IF st.current_chunk # <<>> THEN 2 ELSE 0)
                 + para_size <= chunk_size
       THEN SemanticLoop(Tail(paragraphs), chunk_size,
              [chunks |-> st.chunks,
               current_chunk |->
                 Append(st.current_chunk,
                        Piece(paragraph.src, para_size, segment_type)),
               current_size |-> st.current_size
                 + (IF Len(st.current_chunk) + 1 > 1 THEN 2 ELSE 0)
                 + para_size,
               current_segment_types |->
                 st.current_segment_types \cup {segment_type}], metadata)
       ELSE SemanticLoop(Tail(paragraphs), chunk_size,
              [chunks |-> flushed,
               current_chunk |->
                 <<Piece(paragraph.src, para_size, segment_type)>>,
               current_size |-> para_size,
               current_segment_types |-> {segment_type}], metadata)

\* paragraphs = re.split(r'\n\s*\n', text), stripped, blank ones dropped:
\* the paragraphs with their positions.
Numbered(text) ==
  [i \in 1..Len(text) |->
     [src |-> i, is_heading |-> text[i].is_heading,
      sentences |-> text[i].sentences]]

\* SemanticChunkingStrategy.split_text
semantic_split_text(text, chunk_size, metadata) ==
  IF text = <<>> THEN <<>>
  ELSE
    LET st == SemanticLoop(Numbered(text), chunk_size,
                [chunks |-> <<>>, current_chunk |-> <<>>,
                 current_size |-> 0, current_segment_types |-> {}], metadata)
        emitted == IF st.current_chunk # <<>> THEN SemanticFlush(st, metadata)
                   ELSE st.chunks
    IN UpdateTotalChunks(emitted)

\* get_chunker(chunk_size, chunk_overlap, use_semantic_chunking) and the
\* text and metadata handed to its split_text.
TextChunker(strategy, chunk_size, chunk_overlap, text, metadata) ==
  [NoSplit EXCEPT !.strategy = strategy, !.chunk_size = chunk_size,
                  !.chunk_overlap = chunk_overlap, !.text = text,
                  !.metadata = metadata]

\* TextChunker.split_text: the call is passed to the strategy.
split_text ==
  /\ split_call.strategy # "none"
  /\ ~split_call.returned
  /\ split_call' =
       [split_call EXCEPT
          !.returned = TRUE,
          !.chunks = IF split_call.strategy = "semantic"
                     THEN semantic_split_text(split_call.text,
                                              split_call.chunk_size,
                                              split_call.metadata)
                     ELSE simple_split_text(split_call.text,
                                            split_call.chunk_size,
                                            split_call.chunk_overlap,
                                            split_call.metadata)]
  /\ UNCHANGED <<cfg_vars, dep_vars, embedding_model, store_vars, run_vars,
                 status_response, op_log, call_vars, provider_vars>>

\* ------------------------------------------------- callers of the store
\* The fragments the callers of the store hold: two of document 1, one of
\* document 2, one of document 2 without a vector that reuses the id of a
\* fragment of document 1, and one whose pickle.dump raises.
Corpus ==
  {Chunk(1, 1, 101, <<1, 0>>, [source |-> "a"], TRUE),
   Chunk(2, 1, 102, <<1, 1>>, [source |-> "b", page |-> 1], TRUE),
   Chunk(3, 2, 103, <<0, 1>>, [source |-> "a", page |-> 2], TRUE),
   Chunk(2, 2, 104, <<>>, [source |-> "a"], TRUE),
   Chunk(1, 1, 105, <<0, 1>>, [source |-> "a"], FALSE)}
CorpusIds == {f.chunk_id : f \in Corpus}

\* Query vectors, top_k values and filters of the search requests.
Queries == {<<1, 0>>, <<0 - 1, 1>>}
TopKs == 0..MaxTopK
FilterSets ==
  {NoFilters, [document_id |-> 1], [source |-> "a"], [page |-> 1],
   [document_id |-> 2, source |-> "a"]}

\* await storage.add_chunks([chunk], conversation_id)
call_add_chunks(chunk, conversation_id) ==
  /\ n_calls < MaxStoreOps
  /\ LET st == add_chunks(index, files, index_file, <<chunk>>, conversation_id)
     IN /\ index' = st.index
        /\ files' = st.files
        /\ index_file' = st.index_file
        /\ store_call' = [NoCall EXCEPT !.op = "add",
                            !.conversation_id = conversation_id,
                            !.chunk = chunk, !.chunk_ids = st.chunk_ids]
  /\ n_calls' = n_calls + 1
  /\ UNCHANGED <<cfg_vars, dep_vars, split_call, provider_vars, embedding_model, run_vars, status_response,
                 op_log, writers>>

\* The fragments of one document a caller hands over in one batch: distinct
\* objects with their own ids (taken in increasing order), each of which
\* may fail to pickle.
BatchFragments ==
  {Chunk(id, 1, 100 + id, <<1, 0>>, [source |-> "a"], picklable) :
     id \in 1..MaxChunks, picklable \in BOOLEAN}
Batches ==
  {b \in UNION {[1..n -> BatchFragments] : n \in 0..MaxChunks} :
     \A i \in 1..Len(b), j \in 1..Len(b) :
       i < j => b[i].chunk_id < b[j].chunk_id}

\* await storage.add_chunks(chunks, conversation_id) with a whole batch,
\* after the calls that completed before it.
call_add_batch(batch, conversation_id) ==
  /\ n_calls < MaxSeeds + 1
  /\ store_call.op # "add_batch"
  /\ LET st == add_chunks(index, files, index_file, batch, conversation_id)
     IN /\ index' = st.index
        /\ files' = st.files
        /\ index_file' = st.index_file
        /\ store_call' = [NoCall EXCEPT !.op = "add_batch",
                            !.conversation_id = conversation_id,
                            !.batch = batch, !.chunk_ids = st.chunk_ids]
  /\ n_calls' = n_calls + 1
  /\ UNCHANGED <<cfg_vars, dep_vars, split_call, provider_vars, embedding_model, run_vars, status_response,
                 op_log, writers>>

\* await storage.delete_document(document_id, conversation_id); failing is
\* the set of chunk ids whose os.remove raises during the call.
call_delete_document(document_id, conversation_id, failing) ==
  /\ n_calls < MaxStoreOps
  /\ LET st == delete_document(index, files, index_file, document_id,
                               conversation_id, failing)
     IN /\ index' = st.index
        /\ files' = st.files
        /\ index_file' = st.index_file
        /\ store_call' = [NoCall EXCEPT !.op = "delete",
                            !.conversation_id = conversation_id,
                            !.document_id = document_id,
                            !.deleted_count = st.deleted_count,
                            !.previous_count =
                               IF /\ store_call.op = "delete"
                                  /\ store_call.document_id = document_id
                                  /\ store_call.conversation_id = conversation_id
                               THEN store_call.deleted_count
                               ELSE Absent]
  /\ n_calls' = n_calls + 1
  /\ UNCHANGED <<cfg_vars, dep_vars, split_call, provider_vars, embedding_model, run_vars, status_response,
                 op_log, writers>>

\* await storage.search_chunks(query_embedding, top_k, conversation_id,
\* filters)
call_search_chunks(query_embedding, top_k, conversation_id, filters) ==
  /\ store_call' = [NoCall EXCEPT !.op = "search",
                      !.conversation_id = conversation_id,
                      !.query_embedding = query_embedding,
                      !.top_k = top_k, !.filters = filters,
                      !.results = search_chunks(index, files, query_embedding,
                                    top_k, conversation_id, filters)]
  /\ UNCHANGED <<cfg_vars, dep_vars, split_call, provider_vars, embedding_model, store_vars, run_vars,
                 status_response, op_log, n_calls, writers>>

\* await storage.list_documents(conversation_id)
call_list_documents(conversation_id) ==
  /\ store_call' = [NoCall EXCEPT !.op = "list",
                      !.conversation_id = conversation_id,
                      !.documents = list_documents(index, conversation_id)]
  /\ UNCHANGED <<cfg_vars, dep_vars, split_call, provider_vars, embedding_model, store_vars, run_vars,
                 status_response, op_log, n_calls, writers>>

\* The process is restarted: a fresh FilesystemStorage is constructed
\* (self.index = {}) and initialize() loads the indexes from the files.
store_restart ==
  /\ n_calls < MaxStoreOps
  /\ index' = _load_indexes(index_file)
  /\ store_call' = [NoCall EXCEPT !.op = "restart"]
  /\ n_calls' = n_calls + 1
  /\ UNCHANGED <<cfg_vars, dep_vars, split_call, provider_vars, embedding_model, files, index_file, run_vars,
                 status_response, op_log, writers>>

\* A call of add_chunks that completes before any task is created.
writers_seed(chunk, conversation_id) ==
  /\ n_calls < MaxSeeds
  /\ \A w \in Writers : writers[w].state = "idle"
  /\ call_add_chunks(chunk, conversation_id)

\* A task is created for storage.add_chunks([chunk], conversation_id): the
\* background ingestion of an upload.
writer_call_add(w, chunk, conversation_id) ==
  /\ writers[w].state = "idle"
  /\ writers' = [writers EXCEPT ![w] =
                   [NoWriter EXCEPT !.state = "pending", !.op = "add",
                                    !.chunk = chunk,
                                    !.conversation_id = conversation_id]]
  /\ UNCHANGED <<cfg_vars, dep_vars, split_call, provider_vars, embedding_model, store_vars, run_vars,
                 status_response, op_log, store_call, n_calls>>

\* A task is created for storage.delete_document(document_id,
\* conversation_id): the handler of a delete request.
writer_call_delete(w, document_id, conversation_id) ==
  /\ writers[w].state = "idle"
  /\ writers' = [writers EXCEPT ![w] =
                   [NoWriter EXCEPT !.state = "pending", !.op = "delete",
                                    !.document_id = document_id,
                                    !.conversation_id = conversation_id]]
  /\ UNCHANGED <<cfg_vars, dep_vars, split_call, provider_vars, embedding_model, store_vars, run_vars,
                 status_response, op_log, store_call, n_calls>>

\* The event loop runs the call of a pending task.  add_chunks and
\* delete_document await only initialize() and _save_index(), coroutines
\* that never suspend, so the call runs to its return without another
\* task in between.
writer_run(w) ==
  /\ writers[w].state = "pending"
  /\ LET me == writers[w]
         turn == 1 + Cardinality({v \in Writers : writers[v].state = "returned"})
         concurrent == \E v \in Writers \ {w} : writers[v].state = "pending"
     IN IF me.op = "add"
        THEN LET st == add_chunks(index, files, index_file, <<me.chunk>>,
                                  me.conversation_id)
             IN /\ index' = st.index
                /\ files' = st.files
                /\ index_file' = st.index_file
                /\ writers' = [writers EXCEPT ![w] =
                                 [me EXCEPT !.state = "returned",
                                            !.chunk_ids = st.chunk_ids,
                                            !.turn = turn,
                                            !.concurrent = concurrent]]
        ELSE LET st == delete_document(index, files, index_file,
                                       me.document_id, me.conversation_id, {})
                 before == {index[me.conversation_id][i].chunk_id :
                              i \in 1..Len(index[me.conversation_id])}
                 after == {st.index[me.conversation_id][i].chunk_id :
                              i \in 1..Len(st.index[me.conversation_id])}
             IN /\ index' = st.index
                /\ files' = st.files
                /\ index_file' = st.index_file
                /\ writers' = [writers EXCEPT ![w] =
                                 [me EXCEPT !.state = "returned",
                                            !.deleted_count = st.deleted_count,
                                            !.removed = before \ after,
                                            !.turn = turn,
                                            !.concurrent = concurrent]]
  /\ UNCHANGED <<cfg_vars, dep_vars, split_call, provider_vars, embedding_model, run_vars, status_response,
                 op_log, store_call, n_calls>>

\* -------------------------------------------------------- specifications
Next ==
  \/ \E d \in Docs, c \in ConversationIds, a \in BOOLEAN, f \in BOOLEAN :
       upload_document(d, c, a, f)
  \/ \E d \in Docs : upload_respond(d)
  \/ \E d \in Docs, c \in ConversationIds : process_document(d, c)
  \/ \E d \in Docs : pd_start(d)
  \/ \E d \in Docs : pd_resolve(d)
  \/ \E d \in Docs : pd_extract(d)
  \/ \E d \in Docs : pd_chunk(d)
  \/ \E d \in Docs : pd_embed_batch(d)
  \/ \E d \in Docs : pd_embed_done(d)
  \/ \E d \in Docs : pd_store(d)

Spec == Init /\ [][Next]_vars

\* The service on a filesystem where the write of a chunk file can fail.
WriteFaultNext ==
  \/ \E d \in Docs, c \in ConversationIds, a \in BOOLEAN, f \in BOOLEAN :
       upload_document(d, c, a, f)
  \/ \E d \in Docs : upload_respond(d)
  \/ \E d \in Docs, c \in ConversationIds : process_document(d, c)
  \/ \E d \in Docs : pd_start(d)
  \/ \E d \in Docs : pd_resolve(d)
  \/ \E d \in Docs : pd_extract(d)
  \/ \E d \in Docs : pd_chunk(d)
  \/ \E d \in Docs : pd_embed_batch(d)
  \/ \E d \in Docs : pd_embed_done(d)
  \/ \E d \in Docs, failing \in SUBSET (1..MaxChunks) :
       pd_store_writes(d, failing)

WriteFaultSpec == Init /\ [][WriteFaultNext]_vars

\* One step of the run of process_document for document d.
PipelineStep(d) ==
  \/ pd_start(d)
  \/ pd_resolve(d)
  \/ pd_extract(d)
  \/ pd_chunk(d)
  \/ pd_embed_batch(d)
  \/ pd_embed_done(d)
  \/ pd_store(d)

\* Runs of process_document started by direct calls.
PipelineNext ==
  \/ \E d \in Docs, c \in ConversationIds : process_document(d, c)
  \/ \E d \in Docs : PipelineStep(d)

\* Every started run of process_document is carried on: the coroutine is
\* awaited by its caller, and every call it awaits returns or raises.
LiveSpec ==
  Init /\ [][PipelineNext]_vars /\ \A d \in Docs : WF_vars(PipelineStep(d))

\* Runs of process_document started by direct calls, on a filesystem where
\* the write of a chunk file can fail.
PipelineFaultNext ==
  \/ \E d \in Docs, c \in ConversationIds : process_document(d, c)
  \/ \E d \in Docs : pd_start(d)
  \/ \E d \in Docs : pd_resolve(d)
  \/ \E d \in Docs : pd_extract(d)
  \/ \E d \in Docs : pd_chunk(d)
  \/ \E d \in Docs : pd_embed_batch(d)
  \/ \E d \in Docs : pd_embed_done(d)
  \/ \E d \in Docs :
       \E failing \in SUBSET (1..Len(chunks[d])) : pd_store_writes(d, failing)

PipelineFaultSpec == Init /\ [][PipelineFaultNext]_vars

\* The service with status requests arriving at any moment.
StatusNext ==
  \/ Next
  \/ \E d \in Docs, c \in ConversationIds : status_request(d, c)

StatusSpec == Init /\ [][StatusNext]_vars

StoreNext ==
  \/ \E f \in Fragments, c \in StoreNamespaces : store_add(<<f>>, c)
  \/ \E id \in StoreIds, c \in StoreNamespaces : store_get(id, c)

\* A store used directly by its callers, under the default settings.
StoreInit ==
  /\ embedding_batch_size = 1
  /\ api_key_set = TRUE
  /\ Started
  /\ split_call = NoSplit
  /\ provider = NoProvider
  /\ embed_call = NoEmbedCall

StoreSpec == StoreInit /\ [][StoreNext]_vars

\* The store called by one caller at a time, on a filesystem whose
\* os.remove succeeds.  The caller writes to any namespace and reads the
\* default one.
RepoNext ==
  \/ \E f \in Corpus, c \in StoreNamespaces : call_add_chunks(f, c)
  \/ \E d \in StoreDocs, c \in StoreNamespaces :
       call_delete_document(d, c, {})
  \/ \E q \in Queries, F \in {NoFilters, [page |-> 1]} :
       call_search_chunks(q, MaxTopK, None, F)
  \/ call_list_documents(None)
  \/ store_restart

RepoSpec == StoreInit /\ [][RepoNext]_vars

\* The same store on a filesystem where removing a chunk file can fail.
RepoFaultNext ==
  \/ \E f \in Corpus, c \in StoreNamespaces : call_add_chunks(f, c)
  \/ \E d \in StoreDocs, c \in StoreNamespaces, failing \in SUBSET CorpusIds :
       call_delete_document(d, c, failing)
  \/ store_restart

RepoFaultSpec == StoreInit /\ [][RepoFaultNext]_vars

\* A store whose callers add whole batches, some fragments of which cannot
\* be written.
BatchNext ==
  \/ \E f \in Corpus, c \in ConversationIds : writers_seed(f, c)
  \/ \E batch \in Batches, c \in ConversationIds : call_add_batch(batch, c)

BatchSpec == StoreInit /\ [][BatchNext]_vars

\* Two tasks that write to the store of one process, after at most
\* MaxSeeds completed calls of add_chunks.
WritersNext ==
  \/ \E f \in Corpus, c \in ConversationIds : writers_seed(f, c)
  \/ \E w \in Writers, f \in Corpus, c \in ConversationIds :
       writer_call_add(w, f, c)
  \/ \E w \in Writers, d \in StoreDocs, c \in ConversationIds :
       writer_call_delete(w, d, c)
  \/ \E w \in Writers : writer_run(w)

WritersSpec == StoreInit /\ [][WritersNext]_vars

\* One split_text call of a chunker built with the settings' chunk_size,
\* chunk_overlap (smaller than chunk_size) and strategy, on any text.
ChunkerInit ==
  /\ embedding_batch_size = 1
  /\ api_key_set = TRUE
  /\ Started
  /\ provider = NoProvider
  /\ embed_call = NoEmbedCall
  /\ \E metadata \in Metadatas :
       \/ \E text \in SimpleTexts, chunk_size \in ChunkSizes :
            \E chunk_overlap \in 0..(chunk_size - 1) :
              split_call = TextChunker("simple", chunk_size, chunk_overlap,
                                       text, metadata)
       \/ \E text \in SemanticTexts, chunk_size \in ChunkSizes :
            \E chunk_overlap \in {0, chunk_size - 1} :
              split_call = TextChunker("semantic", chunk_size, chunk_overlap,
                                       text, metadata)

ChunkerNext == split_text

ChunkerSpec == ChunkerInit /\ [][ChunkerNext]_vars

\* ---------------------------------------------------- embedding providers
Backends == {"local", "openai"}
TextIds == 1..2
Texts == UNION {[1..n -> TextIds] : n \in 0..MaxTexts}

\* What loading and probing the SentenceTransformer model can do; the
\* remote initialize() depends on the API key alone.
InitializeOutcomes(backend) ==
  IF backend = "local"
  THEN {"ok", "import_error", "load_error", "encode_error"}
  ELSE {"ok"}

\* SentenceTransformerEmbedding.initialize: the instance after it, whether
\* it raised, and the calls made to the model.
local_initialize(p, outcome) ==
  CASE outcome = "import_error" ->
         [provider |-> p, raised |-> TRUE, model_calls |-> <<>>,
          error |-> [type |-> "ImportError", status |-> 0, body |-> ""]]
    [] outcome = "load_error" ->
         [provider |-> p, raised |-> TRUE, model_calls |-> <<"load">>,
          error |-> [type |-> "Exception", status |-> 0, body |-> ""]]
    [] outcome = "encode_error" ->
         [provider |-> [p EXCEPT !.model = TRUE], raised |-> TRUE,
          model_calls |-> <<"load", "encode">>,
          error |-> [type |-> "Exception", status |-> 0, body |-> ""]]
    [] OTHER ->
         [provider |-> [p EXCEPT !.model = TRUE,
                                 !._embedding_dim = LocalDim,
                                 !.initialized = TRUE],
          raised |-> FALSE, model_calls |-> <<"load", "encode">>,
          error |-> NoError]

\* OpenAIEmbedding.initialize
openai_initialize(p) ==
  IF ~p.api_key
  THEN [provider |-> p, raised |-> TRUE, model_calls |-> <<>>,
        error |-> [type |-> "ValueError", status |-> 0, body |-> ""]]
  ELSE [provider |-> [p EXCEPT !.initialized = TRUE], raised |-> FALSE,
        model_calls |-> <<>>, error |-> NoError]

\* The call record of a call that starts on instance p.
StartCall(p, op, texts) ==
  [NoEmbedCall EXCEPT !.op = op, !.texts = texts,
                      !.initialized = p.initialized]

\* EmbeddingModel.initialize()
initialize ==
  /\ provider.backend \in Backends
  /\ \E outcome \in InitializeOutcomes(provider.backend) :
       LET done == IF provider.backend = "local"
                   THEN local_initialize(provider, outcome)
                   ELSE openai_initialize(provider)
       IN /\ provider' = done.provider
          /\ embed_call' =
               [StartCall(provider, "initialize", <<>>) EXCEPT
                  !.outcome = IF done.raised THEN "raised" ELSE "returned",
                  !.error = done.error,
                  !.model_calls = done.model_calls]
  /\ UNCHANGED <<cfg_vars, dep_vars, embedding_model, store_vars, run_vars,
                 status_response, op_log, call_vars, split_call>>

\* self.model.encode(texts), [embedding for embedding in embeddings]: one
\* vector per text, in the order of the texts.
Encode(texts) == [i \in 1..Len(texts) |-> Embed(texts[i])]

\* SentenceTransformerEmbedding.get_embeddings: the instance after the call
\* and the call's record.
local_get_embeddings(p, texts, outcome, encode_ok) ==
  LET call == StartCall(p, "get_embeddings", texts)
      done == IF ~p.model THEN local_initialize(p, outcome)
              ELSE [provider |-> p, raised |-> FALSE, model_calls |-> <<>>,
                    error |-> NoError]
  IN IF done.raised
     THEN [provider |-> done.provider,
           call |-> [call EXCEPT !.outcome = "raised",
                                 !.error = done.error,
                                 !.model_calls = done.model_calls]]
     ELSE IF ~encode_ok
     THEN [provider |-> done.provider,
           call |-> [call EXCEPT
                       !.outcome = "raised",
                       !.error = [type |-> "Exception", status |-> 0,
                                  body |-> ""],
                       !.model_calls = Append(done.model_calls, "encode")]]
     ELSE [provider |-> done.provider,
           call |-> [call EXCEPT
                       !.outcome = "returned",
                       !.result = Encode(texts),
                       !.model_calls = Append(done.model_calls, "encode")]]

\* for i in range(0, len(texts), chunk_size): chunk = texts[i:i+chunk_size]
SubBatches(texts) ==
  [j \in 1..((Len(texts) + MaxTextsPerRequest - 1) \div MaxTextsPerRequest) |->
     SubSeq(texts, (j - 1) * MaxTextsPerRequest + 1,
            Min(j * MaxTextsPerRequest, Len(texts)))]

\* What the embeddings endpoint can answer to one request: status 200 with
\* one item per text or with the last one missing, or an error status.
ResponseKinds ==
  {[status |-> 200, missing |-> 0], [status |-> 200, missing |-> 1],
   [status |-> 429, missing |-> 0], [status |-> 500, missing |-> 0]}

\* The response to the request for chunk: its status, its body as text and
\* the items of json_response.get("data", []).
ResponseTo(chunk, kind) ==
  [status |-> kind.status,
   body |-> IF kind.status = 200 THEN "data"
            ELSE IF kind.status = 429 THEN "rate limit" ELSE "server error",
   data |-> IF kind.status = 200
            THEN SubSeq(Encode(chunk), 1,
                        IF Len(chunk) > kind.missing
                        THEN Len(chunk) - kind.missing ELSE 0)
            ELSE <<>>]

\* Variant of OnErrorResponse: the answer is skipped and the loop goes on.
OnErrorResponseSkip(acc, answer) == acc

\* if response.status != 200: raise Exception(f"OpenAI API error:
\* {response.status} - {error_text}")
OnErrorResponse(acc, answer) ==
  [acc EXCEPT !.raised = TRUE,
              !.error = [type |-> "Exception", status |-> answer.status,
                         body |-> answer.body]]

\* The loop of OpenAIEmbedding.get_embeddings over the sub-batches; acc
\* carries embeddings, the requests posted, the responses received and the
\* exception raised, plan the answers the endpoint will give.
RECURSIVE PostLoop(_, _, _)
PostLoop(batches, plan, acc) ==
  IF batches = <<>> \/ acc.raised THEN acc
  ELSE
    LET chunk == Head(batches)
        answer == ResponseTo(chunk, Head(plan))
        sent == [acc EXCEPT !.requests = Append(@, chunk),
                            !.responses = Append(@, answer)]
    IN PostLoop(Tail(batches), Tail(plan),
         IF answer.status # 200 THEN OnErrorResponse(sent, answer)
         ELSE [sent EXCEPT !.embeddings = @ \o answer.data])

\* OpenAIEmbedding.get_embeddings
openai_get_embeddings(p, texts, plan) ==
  LET call == StartCall(p, "get_embeddings", texts)
      done == IF ~p.api_key THEN openai_initialize(p)
              ELSE [provider |-> p, raised |-> FALSE, model_calls |-> <<>>,
                    error |-> NoError]
  IN IF done.raised
     THEN [provider |-> done.provider,
           call |-> [call EXCEPT !.outcome = "raised",
                                 !.error = done.error]]
     ELSE IF texts = <<>>
     THEN [provider |-> done.provider,
           call |-> [call EXCEPT !.outcome = "returned"]]
     ELSE
       LET acc == PostLoop(SubBatches(texts), plan,
                    [embeddings |-> <<>>, requests |-> <<>>,
                     responses |-> <<>>, raised |-> FALSE,
                     error |-> NoError])
       IN [provider |-> done.provider,
           call |-> [call EXCEPT
                       !.outcome = IF acc.raised THEN "raised"
                                   ELSE "returned",
                       !.result = IF acc.raised THEN <<>>
                                  ELSE acc.embeddings,
                       !.error = acc.error,
                       !.requests = acc.requests,
                       !.responses = acc.responses]]

\* EmbeddingModel.get_embeddings(texts)
get_embeddings(texts) ==
  /\ provider.backend \in Backends
  /\ \E outcome \in InitializeOutcomes(provider.backend),
        encode_ok \in IF provider.backend = "local" THEN BOOLEAN ELSE {TRUE},
        plan \in IF provider.backend = "openai"
                  THEN [1..Len(SubBatches(texts)) -> ResponseKinds]
                  ELSE {<<>>} :
       LET done == IF provider.backend = "local"
                   THEN local_get_embeddings(provider, texts, outcome,
                                             encode_ok)
                   ELSE openai_get_embeddings(provider, texts, plan)
       IN /\ provider' = done.provider
          /\ embed_call' = done.call
  /\ UNCHANGED <<cfg_vars, dep_vars, embedding_model, store_vars, run_vars,
                 status_response, op_log, call_vars, split_call>>

\* EmbeddingModel.embedding_dim (a property: reading it is the call)
embedding_dim ==
  /\ provider.backend \in Backends
  /\ LET call == StartCall(provider, "embedding_dim", <<>>)
     IN IF provider._embedding_dim = NoDim
        THEN /\ embed_call' =
                  [call EXCEPT !.outcome = "raised",
                               !.error = [type |-> "ValueError",
                                          status |-> 0, body |-> ""]]
             /\ UNCHANGED provider
        ELSE /\ embed_call' =
                  [call EXCEPT !.outcome = "returned",
                               !.dim = provider._embedding_dim]
             /\ provider' =
                  [provider EXCEPT
                     !.returned_dims = @ \cup {provider._embedding_dim}]
  /\ UNCHANGED <<cfg_vars, dep_vars, embedding_model, store_vars, run_vars,
                 status_response, op_log, call_vars, split_call>>

\* An embedding model as get_embedding_model() builds it, local or remote,
\* with or without OPENAI_API_KEY, and the calls made on it.
EmbeddingInit ==
  /\ embedding_batch_size = 1
  /\ api_key_set = TRUE
  /\ Started
  /\ split_call = NoSplit
  /\ embed_call = NoEmbedCall
  /\ \/ provider = NewProvider("local", FALSE)
     \/ \E api_key \in BOOLEAN : provider = NewProvider("openai", api_key)

EmbeddingNext ==
  \/ initialize
  \/ \E texts \in Texts : get_embeddings(texts)
  \/ embedding_dim

EmbeddingSpec == EmbeddingInit /\ [][EmbeddingNext]_vars

\* ------------------------------------------------- api/dependencies.py
\* The two process-wide singletons and the module globals that hold them.
Dependencies == {"storage", "embedding"}
Singleton(dependency) ==
  IF dependency = "storage" THEN _storage ELSE embedding_model

\* Whether initialize() of the new instance succeeds: FilesystemStorage
\* creates its base directory and loads the indexes (os.makedirs can
\* raise); the embedding provider needs its credentials/model.
InitializeSucceeds(dependency) ==
  IF dependency = "storage" THEN BOOLEAN ELSE {api_key_set}

\* get_storage / get_embedding_model_instance up to the await: when the
\* global is None the instance is created and stored in the global, then
\* initialize() is awaited; otherwise the global is returned as it is.  The
\* request holds the event loop from its start to its end: nothing in
\* initialize() suspends the coroutine.
get_dependency(r, dependency) ==
  /\ requests[r].pc = "idle"
  /\ running = 0
  /\ IF Singleton(dependency) = None
     THEN /\ _storage' =
               IF dependency = "storage" THEN "uninit" ELSE _storage
          /\ embedding_model' =
               IF dependency = "embedding" THEN "uninit" ELSE embedding_model
          /\ requests' = [requests EXCEPT ![r] =
               [pc |-> "initialize", dependency |-> dependency,
                got |-> "none"]]
          /\ running' = r
     ELSE /\ requests' = [requests EXCEPT ![r] =
               [pc |-> "returned", dependency |-> dependency,
                got |-> Singleton(dependency)]]
          /\ UNCHANGED <<_storage, embedding_model, running>>
  /\ UNCHANGED <<cfg_vars, split_call, provider_vars, store_vars, run_vars,
                 status_response, op_log, call_vars>>

\* The awaited initialize() of the instance the request has created: it
\* completes and the global is returned, or it raises and the exception
\* leaves the function, the global keeping the instance.
await_initialize(r) ==
  /\ requests[r].pc = "initialize"
  /\ running = r
  /\ LET dependency == requests[r].dependency
     IN \E ok \in InitializeSucceeds(dependency) :
          IF ok
          THEN /\ _storage' =
                    IF dependency = "storage" THEN "ready" ELSE _storage
               /\ embedding_model' =
                    IF dependency = "embedding" THEN "ready"
                    ELSE embedding_model
               /\ requests' = [requests EXCEPT ![r].pc = "returned",
                                               ![r].got = "ready"]
          ELSE /\ requests' = [requests EXCEPT ![r].pc = "raised"]
               /\ UNCHANGED <<_storage, embedding_model>>
  /\ running' = 0
  /\ UNCHANGED <<cfg_vars, split_call, provider_vars, store_vars, run_vars,
                 status_response, op_log, call_vars>>

\* Requests that resolve a dependency, in any order; the backend's
\* credentials are there or not.
DependencyInit ==
  /\ embedding_batch_size = 1
  /\ api_key_set \in BOOLEAN
  /\ Started
  /\ split_call = NoSplit
  /\ provider = NoProvider
  /\ embed_call = NoEmbedCall

DependencyNext ==
  \/ \E r \in Requests, dependency \in Dependencies :
       get_dependency(r, dependency)
  \/ \E r \in Requests : await_initialize(r)

DependencySpec == DependencyInit /\ [][DependencyNext]_vars

\* ================================================================ claims
StatusRecord(d) == status_file[<<ensure_embeddings_dir(conv[d]), d>>]
Ended(d) == pc[d] \in {"returned", "raised"}
StoredAnywhere(d) ==
  \/ \E c \in StoreNamespaces : DocumentEntries(index, c, d) # {}
  \/ \E p \in Dirs \X ChunkIds :
       files[p].kind = "chunk" /\ files[p].chunk.document_id = d

\* The records written for one document are, in order, a prefix of
\* initialization, text_extraction, chunking, embedding, storage, complete
\* (each with its own status), optionally followed by one failed record,
\* which is the last one, repeats the stage of the record before it, and
\* comes after one of initialization .. storage.
C1_StageOrder ==
  \A d \in Docs :
    \A i \in 1..Len(status_log[d]) :
      LET rec == status_log[d][i]
      IN IF rec.status = "failed"
         THEN /\ i = Len(status_log[d])
              /\ i > 1
              /\ status_log[d][i - 1].status = "processing"
              /\ rec.processing_stage = status_log[d][i - 1].processing_stage
              /\ rec.processing_stage # "complete"
         ELSE /\ i <= Len(ProcessingStage)
              /\ rec.processing_stage = ProcessingStage[i]
              /\ rec.status =
                   IF rec.processing_stage = "complete" THEN "indexed"
                   ELSE "processing"

\* C1: the state machine of one document: the records are written in
\* stage order, and failed is reached from every stage initialization ..
\* storage: a run whose stage raised has written the failed record right
\* after the record of that stage.
C1_StateMachine ==
  /\ C1_StageOrder
  /\ \A d \in Docs :
       fault[d] # "none" =>
         LET n == Len(status_log[d])
         IN /\ n > 1
            /\ status_log[d][n].status = "failed"
            /\ status_log[d][n - 1].processing_stage = fault[d]

\* C2: process_document never raises: whatever stage raised, the run has
\* returned a result with success = false and the persisted record is
\* failed, names the stage that raised and carries an error.
C2_NeverRaises ==
  \A d \in Docs :
    /\ pc[d] # "raised"
    /\ fault[d] # "none" =>
         /\ pc[d] = "returned"
         /\ ~result[d].success
         /\ StatusRecord(d).status = "failed"
         /\ StatusRecord(d).processing_stage = fault[d]
         /\ StatusRecord(d).error # None

\* C3: a run that has ended has left a terminal status (indexed at stage
\* complete, or failed) in its record; no ended run leaves it at
\* processing.
C3_TerminalStatus ==
  \A d \in Docs :
    Ended(d) =>
      \/ /\ StatusRecord(d).status = "indexed"
         /\ StatusRecord(d).processing_stage = "complete"
      \/ StatusRecord(d).status = "failed"

\* C4: while the work of a stage is executing, the persisted record names
\* that stage with status processing.
StageAtWork(d) ==
  CASE pc[d] = "initialization" -> "initialization"
    [] pc[d] = "text_extraction" -> "text_extraction"
    [] pc[d] = "chunking" -> "chunking"
    [] pc[d] = "embedding" -> "embedding"
    [] pc[d] = "storage" -> "storage"
    [] OTHER -> "none"

C7_UploadModes ==
  \A d \in Docs :
    response[d].http = 200 =>
      IF mode[d] = "async"
      THEN /\ response[d].status = "pending"
           /\ ack[d].pc = "queued"
           /\ ack[d].log_len = 0
      ELSE /\ ack[d].pc \in {"returned", "raised"}
           /\ Ended(d)
           /\ ack[d].log_len = Len(status_log[d])
           /\ response[d].status = StatusRecord(d).status
           /\ response[d].status = "indexed" <=> result[d].success
           /\ response[d].status = "failed" <=> ~result[d].success

C7_Witness ==
  \E d \in Docs :
    /\ mode[d] = "sync"
    /\ response[d].http = 200
    /\ response[d].status = "failed"
    /\ fault[d] = "storage"

\* C8 as stated: every upload request that carries a file is answered
\* with a success response, and a failed ingestion shows as status failed.
C8_AlwaysSuccess ==
  \A d \in Docs :
    /\ response[d] # NoResponse => response[d].http = 200
    /\ (response[d] # NoResponse /\ fault[d] # "none") =>
         response[d].status = "failed"

\* C8 amended: an HTTP error answers an upload only when the request
\* failed before the pipeline was scheduled (collaborator resolution,
\* saving the file); once scheduled, the answer is a success response,
\* with status failed for a synchronous upload whose pipeline failed.
C8_SuccessOnceScheduled ==
  \A d \in Docs :
    /\ response[d].http = 500 =>
         pc[d] = "rejected" /\ status_log[d] = <<>>
    /\ (response[d] # NoResponse /\ pc[d] # "rejected") =>
         response[d].http = 200
    /\ (response[d] # NoResponse /\ mode[d] = "sync" /\ fault[d] # "none") =>
         response[d].http = 200 /\ response[d].status = "failed"

C8_Witness ==
  \E d \in Docs :
    /\ mode[d] = "sync"
    /\ fault[d] = "embedding"
    /\ response[d].http = 200

\* C9: a status request for a document with neither a status record nor a
\* fragment in the namespace is answered 404; for a document with a
\* status record it is answered with the record's status and stage.
C9_StatusAnswer ==
  [][\A d \in Docs, c \in ConversationIds :
       status_request(d, c) =>
         LET rec == status_file[<<ensure_embeddings_dir(c), d>>]
         IN /\ (~rec.exists /\ DocumentEntries(index, c, d) = {}) =>
                 status_response'.http = 404
            /\ rec.exists =>
                 /\ status_response'.http = 200
                 /\ status_response'.status = rec.status
                 /\ status_response'.processing_stage = rec.processing_stage
    ]_vars

\* C10: a get that directly follows add([f]) of a well-formed fragment f,
\* for f's id in the same namespace, returns a fragment with f's id,
\* document id, text, vector and metadata.
RoundTrip(i) ==
  /\ i < Len(op_log)
  /\ op_log[i].op = "add"
  /\ Len(op_log[i].batch) = 1
  /\ op_log[i].batch[1].picklable
  /\ op_log[i + 1].op = "get"
  /\ op_log[i + 1].conversation_id = op_log[i].conversation_id
  /\ op_log[i + 1].chunk_id = op_log[i].batch[1].chunk_id

C10_RoundTrip ==
  \A i \in 1..Len(op_log) :
    RoundTrip(i) =>
      LET f == op_log[i].batch[1]
          got == op_log[i + 1].got
      IN /\ op_log[i].chunk_ids = <<f.chunk_id>>
         /\ got.found
         /\ got.chunk.chunk_id = f.chunk_id
         /\ got.chunk.document_id = f.document_id
         /\ got.chunk.text = f.text
         /\ got.chunk.embedding = f.embedding
         /\ got.chunk.metadata = f.metadata

C10_Witness ==
  \E i \in 1..Len(op_log) :
    /\ i > 1
    /\ RoundTrip(i)
    /\ op_log[i].conversation_id = "conv"
    /\ op_log[i - 1].op = "add"
    /\ op_log[i - 1].conversation_id = None
    /\ op_log[i - 1].batch[1].chunk_id = op_log[i].batch[1].chunk_id

\* A step that is a call of delete_document on the store.
DeleteStep == n_calls' = n_calls + 1 /\ store_call'.op = "delete"

MatchesExactly(document_id, metadata, filters) ==
  \A key \in DOMAIN filters :
     IF key = "document_id" THEN document_id = filters[key]
     ELSE key \in DOMAIN metadata /\ metadata[key] = filters[key]

\* Non-increasing order of the similarity scores of a result list.
NonIncreasing(results) ==
  \A i, j \in 1..Len(results) :
     i < j => ~SimGreater(results[j].similarity, results[i].similarity)

\* C13 (ordering half): for every stored state, query vector, top_k,
\* namespace and filters, search_chunks answers in non-increasing order of
\* similarity and with at most top_k fragments.
C13_Sorted ==
  \A q \in Queries, k \in TopKs, c \in StoreNamespaces, F \in FilterSets :
     LET results == search_chunks(index, files, q, k, c, F)
     IN NonIncreasing(results) /\ Len(results) <= k

\* C13: a search answers in non-increasing order of similarity, and the
\* number of fragments it returns is min(k, number of index entries of the
\* namespace that match the filters); an empty namespace gives an empty
\* list.
C13_SearchRanking ==
  store_call.op = "search" =>
    LET conv_index == index[store_call.conversation_id]
        matching == {i \in 1..Len(conv_index) :
                       MatchesExactly(conv_index[i].document_id,
                                      conv_index[i].metadata,
                                      store_call.filters)}
    IN /\ NonIncreasing(store_call.results)
       /\ Len(store_call.results)
            = (IF store_call.top_k < Cardinality(matching)
               THEN store_call.top_k ELSE Cardinality(matching))

\* C14: every fragment a search with filters F returns satisfies every
\* filter of F exactly: its index entry has the filtered document id, and
\* its metadata has every other filtered key with the filter's value.
C14_FiltersExact ==
  store_call.op = "search" =>
    \A i \in 1..Len(store_call.results) :
       LET chunk == store_call.results[i].chunk
           chunk_info == DictGet(index[store_call.conversation_id],
                                 chunk.chunk_id)
       IN MatchesExactly(chunk_info.document_id, chunk.metadata,
                         store_call.filters)

\* What list_documents has to answer for an index: one summary per
\* document id, with the number of the document's entries and the metadata
\* of its first entry.
ListCorrect(documents, conv_index) ==
  LET Entries(doc_id) ==
        {i \in 1..Len(conv_index) : conv_index[i].document_id = doc_id}
  IN /\ \A i \in 1..Len(conv_index) :
          Cardinality({s \in documents :
                         s.document_id = conv_index[i].document_id}) = 1
     /\ \A s \in documents :
          /\ Entries(s.document_id) # {}
          /\ s.chunk_count = Cardinality(Entries(s.document_id))
          /\ \E i \in Entries(s.document_id) :
               /\ \A j \in Entries(s.document_id) : i <= j
               /\ s.metadata = conv_index[i].metadata

\* C15: list_documents returns exactly one summary per distinct document id
\* of the namespace index; its chunk_count is the number of index entries
\* with that document id and its metadata that of the document's first
\* entry in index order.
C15_ListDocuments ==
  /\ store_call.op = "list" =>
       ListCorrect(store_call.documents, index[store_call.conversation_id])
  /\ \A c \in StoreNamespaces :
       ListCorrect(list_documents(index, c), index[c])

\* Two fragments of one document with different metadata were added and
\* list_documents answered one summary with chunk_count 2.
C15_Witness ==
  /\ store_call.op = "list"
  /\ \E s \in store_call.documents :
       /\ s.chunk_count = 2
       /\ \E i \in 1..Len(index[store_call.conversation_id]) :
            /\ index[store_call.conversation_id][i].document_id = s.document_id
            /\ index[store_call.conversation_id][i].metadata # s.metadata

\* The ids that have a chunk file in the directory of a namespace, and the
\* ids of the namespace's in-memory index.
RecordIds(conversation_id) ==
  {id \in ChunkIds :
     files[_get_chunk_path(id, conversation_id)].kind # "none"}
IndexIds(idx, conversation_id) ==
  {idx[conversation_id][i].chunk_id : i \in 1..Len(idx[conversation_id])}

\* C16: after every completed add_chunks or delete_document, including the
\* calls in which pickle.dump or os.remove of one fragment fails, the ids
\* that have a record in a namespace's directory are exactly the ids of
\* that namespace's index: no orphan record, no dangling index entry.
C16_NoOrphans ==
  store_call.op \in {"add", "delete"} =>
    \A c \in StoreNamespaces : RecordIds(c) = IndexIds(index, c)

\* C17: a store freshly started on the files left by any sequence of
\* completed add_chunks and delete_document calls loads, for every
\* namespace, the index the running store had in memory (get_chunk,
\* search_chunks and list_documents read nothing but that index and the
\* chunk files, which the restart leaves alone).
C17_RestartLoadsIndex ==
  [][(n_calls' = n_calls + 1 /\ store_call'.op = "restart") =>
       /\ index' = index
       /\ \A c \in StoreNamespaces :
            /\ list_documents(index', c) = list_documents(index, c)
            /\ \A id \in ChunkIds :
                 get_chunk(index', files', id, c) = get_chunk(index, files, id, c)
            /\ \A q \in Queries :
                 search_chunks(index', files', q, MaxTopK, c, NoFilters)
                   = search_chunks(index, files, q, MaxTopK, c, NoFilters)]_vars

\* The ids a returned add_chunks reported, and whether a returned call
\* saved the index of its namespace.
Reported(wr) == {wr.chunk_ids[i] : i \in 1..Len(wr.chunk_ids)}
Saved(wr) == wr.op = "add" \/ wr.deleted_count > 0

\* Two tasks have returned from calls on the same namespace, E before L.
BothReturned(E, L) ==
  /\ writers[E].state = "returned"
  /\ writers[L].state = "returned"
  /\ writers[E].turn < writers[L].turn
  /\ writers[E].conversation_id = writers[L].conversation_id

C18_DeleteUndone ==
  \E E \in Writers, L \in Writers :
    /\ BothReturned(E, L)
    /\ writers[E].concurrent
    /\ writers[E].op = "delete"
    /\ \E id \in writers[E].removed :
         id \in IndexIds(index, writers[E].conversation_id)

\* C19: add_chunks and delete_document called for namespace A leave every
\* other namespace B that holds fragments as it was, the default namespace
\* included: B's index entries, B's persisted index and the chunk files
\* B's entries point to.  A fragment that search_chunks returns for A is
\* the one A's index entry describes.
C19_NamespacesIndependent ==
  [][/\ (n_calls' = n_calls + 1 /\ store_call'.op \in {"add", "delete"}) =>
          \A B \in StoreNamespaces \ {store_call'.conversation_id} :
            index[B] # <<>> =>
              /\ index'[B] = index[B]
              /\ index_file'[ensure_embeddings_dir(B)]
                   = index_file[ensure_embeddings_dir(B)]
              /\ \A i \in 1..Len(index[B]) :
                   files'[index[B][i].path] = files[index[B][i].path]
     /\ store_call'.op = "search" =>
          \A i \in 1..Len(store_call'.results) :
            LET chunk == store_call'.results[i]
                A == store_call'.conversation_id
            IN /\ DictHas(index[A], chunk.chunk_id)
               /\ DictGet(index[A], chunk.chunk_id).document_id
                    = chunk.document_id]_vars

\* C20: for both strategies and every text, the chunks one split_text
\* call returns carry chunk_index 0, 1, ..., n-1 in the order of the list,
\* without gap or duplicate, and every chunk's total_chunks is n, the
\* number of chunks returned.
C20_DenseChunkIndex ==
  split_call.returned =>
    LET n == Len(split_call.chunks)
    IN \A i \in 1..n :
         /\ split_call.chunks[i].metadata.chunk_index = i - 1
         /\ split_call.chunks[i].metadata.total_chunks = n

\* The semantic strategy has returned three chunks or more, one of them
\* cut between the sentences of a large paragraph.
C20_Witness ==
  /\ split_call.returned
  /\ split_call.strategy = "semantic"
  /\ Len(split_call.chunks) >= 3
  /\ \E i \in 1..Len(split_call.chunks) :
       /\ "split_type" \in DOMAIN split_call.chunks[i].metadata
       /\ split_call.chunks[i].metadata.split_type = "sentence"

\* The simple strategy has returned three chunks or more, one of them a
\* piece of a segment larger than chunk_size.
C20_WitnessSimple ==
  /\ split_call.returned
  /\ split_call.strategy = "simple"
  /\ Len(split_call.chunks) >= 3
  /\ \E i \in 1..Len(split_call.chunks) :
       /\ "is_large_segment" \in DOMAIN split_call.chunks[i].metadata
       /\ i > 1
       /\ "is_large_segment" \notin DOMAIN split_call.chunks[i - 1].metadata

\* C21: after every pipeline run that ends indexed/complete, the
\* total_chunks of every stored fragment of the document is the number of
\* fragments the namespace index holds for the document, which is also the
\* chunk count of the final status record.
C21_TotalChunksStored ==
  \A d \in Docs :
    (/\ pc[d] = "returned"
     /\ StatusRecord(d).status = "indexed"
     /\ StatusRecord(d).processing_stage = "complete") =>
      LET stored == DocumentEntries(index, conv[d], d)
      IN /\ \A i \in stored :
              LET entry == index[conv[d]][i]
                  fragment == get_chunk(index, files, entry.chunk_id, conv[d])
              IN /\ entry.metadata.total_chunks = Cardinality(stored)
                 /\ fragment.found
                 /\ fragment.chunk.metadata.total_chunks = Cardinality(stored)
         /\ StatusRecord(d).chunk_count = Cardinality(stored)

\* C22: with 0 <= chunk_overlap < chunk_size, no chunk the simple strategy
\* returns is longer than chunk_size characters, the chunks opened with
\* overlap segments of the previous chunk included.
C22_ChunkSizeBound ==
  (split_call.returned /\ split_call.strategy = "simple") =>
    \A i \in 1..Len(split_call.chunks) :
      split_call.chunks[i].text.len <= split_call.chunk_size

\* C23: every key/value pair the caller passes as metadata to split_text
\* is found, with the caller's value, in the metadata of every returned
\* chunk, for both strategies, also when the key is one the strategy sets
\* itself, such as chunk_index or total_chunks.
C23_CallerMetadataKept ==
  split_call.returned =>
    \A i \in 1..Len(split_call.chunks) :
      \A key \in DOMAIN split_call.metadata :
        /\ key \in DOMAIN split_call.chunks[i].metadata
        /\ split_call.chunks[i].metadata[key] = split_call.metadata[key]


\* C24: in the semantic variant a heading is the first paragraph of the
\* chunk that contains it: in every chunk split_text returned, a piece that
\* comes from a heading of the input has no piece of another paragraph
\* before it.
C24_HeadingFirst ==
  (split_call.returned /\ split_call.strategy = "semantic") =>
    \A i \in 1..Len(split_call.chunks) :
      LET pieces == split_call.chunks[i].text.pieces
      IN \A j \in 1..Len(pieces) :
           split_call.text[pieces[j].src].is_heading =>
             \A k \in 1..(j - 1) : pieces[k].src = pieces[j].src

\* C24 witness: a heading arrived while a chunk was in progress that had
\* room for it (the chunk before it, two newlines and the heading fit in
\* chunk_size); that chunk was closed and the heading opens the next one.
C24_Witness ==
  /\ split_call.returned
  /\ split_call.strategy = "semantic"
  /\ \E i \in 2..Len(split_call.chunks) :
       LET pieces == split_call.chunks[i].text.pieces
       IN /\ pieces # <<>>
          /\ pieces[1].type = "heading"
          /\ split_call.chunks[i - 1].text.pieces # <<>>
          /\ split_call.chunks[i - 1].text.len + 2 + pieces[1].len
               <= split_call.chunk_size


\* The text of the call is made of non-blank segments.
NonBlankSegments ==
  /\ split_call.text # <<>>
  /\ \A i \in 1..Len(split_call.text) : split_call.text[i] >= 1

\* The chunks returned are one per segment of the text, in input order,
\* with chunk_index 0, 1, ... and total_chunks the number of segments.
OneChunkPerSegment ==
  /\ Len(split_call.chunks) = Len(split_call.text)
  /\ \A i \in 1..Len(split_call.chunks) :
       /\ Len(split_call.chunks[i].text.pieces) = 1
       /\ split_call.chunks[i].text.pieces[1].src = i
       /\ split_call.chunks[i].metadata.chunk_index = i - 1
       /\ split_call.chunks[i].metadata.total_chunks = Len(split_call.text)

\* C25: with chunk_overlap = 0, when every non-blank segment fits within
\* chunk_size (its length is at most chunk_size) and no two consecutive
\* segments fit together (their lengths alone reach chunk_size), the
\* fixed-size variant returns exactly one chunk per segment, in input
\* order.
C25_OneChunkPerSegment ==
  ( /\ split_call.returned
    /\ split_call.strategy = "simple"
    /\ split_call.chunk_overlap = 0
    /\ NonBlankSegments
    /\ \A i \in 1..Len(split_call.text) :
         split_call.text[i] <= split_call.chunk_size
    /\ \A i \in 1..(Len(split_call.text) - 1) :
         split_call.text[i] + split_call.text[i + 1] >= split_call.chunk_size
  ) => OneChunkPerSegment


\* The last n pieces of a chunk, in their order.
TrailingRun(pieces, n) == SubSeq(pieces, Len(pieces) - n + 1, Len(pieces))

\* The length of the longest run of trailing pieces whose combined length
\* is at most chunk_overlap.
LongestRun(pieces, chunk_overlap) ==
  CHOOSE n \in 0..Len(pieces) :
    /\ SumSeq(Lens(TrailingRun(pieces, n))) <= chunk_overlap
    /\ \A m \in 0..Len(pieces) :
         SumSeq(Lens(TrailingRun(pieces, m))) <= chunk_overlap => m <= n

\* Chunk i of the call was opened by a segment that did not fit into chunk
\* i - 1: both are made of whole segments (a chunk closed for a large
\* segment is followed by the slices of that segment).
OpenedByOverflow(i) ==
  /\ i \in 2..Len(split_call.chunks)
  /\ split_call.chunks[i - 1].text.pieces[1].type = "segment"
  /\ split_call.chunks[i].text.pieces[1].type = "segment"

\* C30: in the fixed-size variant, the chunk opened when a segment did not
\* fit starts with the longest run of whole trailing segments of the chunk
\* emitted before it whose combined length is at most chunk_overlap, in
\* their order, followed by the segment that did not fit (the next segment
\* of the input); with chunk_overlap = 0 it starts with that segment.
C30_OverlapCarried ==
  (split_call.returned /\ split_call.strategy = "simple") =>
    \A i \in 2..Len(split_call.chunks) :
      OpenedByOverflow(i) =>
        LET previous == split_call.chunks[i - 1].text.pieces
            current == split_call.chunks[i].text.pieces
            n == LongestRun(previous, split_call.chunk_overlap)
        IN /\ Len(current) >= n + 1
           /\ SubSeq(current, 1, n) = TrailingRun(previous, n)
           /\ current[n + 1].src = previous[Len(previous)].src + 1
           /\ split_call.chunk_overlap = 0 => n = 0

\* C30 witness: a chunk of several segments was emitted and only a part of
\* it, at least one segment, was carried over into the next chunk.
C30_Witness ==
  /\ split_call.returned
  /\ split_call.strategy = "simple"
  /\ \E i \in 2..Len(split_call.chunks) :
       /\ OpenedByOverflow(i)
       /\ LET n == LongestRun(split_call.chunks[i - 1].text.pieces,
                              split_call.chunk_overlap)
          IN /\ n >= 1
             /\ n < Len(split_call.chunks[i - 1].text.pieces)

\* C30 witness, no overlap: with chunk_overlap = 0 a chunk was opened by a
\* segment that did not fit.
C30_WitnessNoOverlap ==
  /\ split_call.returned
  /\ split_call.strategy = "simple"
  /\ split_call.chunk_overlap = 0
  /\ \E i \in 2..Len(split_call.chunks) : OpenedByOverflow(i)


\* A get_embeddings call on the provider has ended.
EmbedEnded ==
  /\ embed_call.op = "get_embeddings"
  /\ embed_call.outcome # "none"

\* C26: for both backends and every input list, a get_embeddings call that
\* returns gives exactly one vector per text, the i-th vector being the one
\* of the i-th text, also when the input spans several sub-batches and when
\* a response carries fewer items than were sent.
C26_OneVectorPerText ==
  (EmbedEnded /\ embed_call.outcome = "returned") =>
    /\ Len(embed_call.result) = Len(embed_call.texts)
    /\ \A i \in 1..Len(embed_call.texts) :
         embed_call.result[i] = Embed(embed_call.texts[i])

\* C27: for both backends and in every provider state, get_embeddings([])
\* returns an empty list, calls the underlying model not at all and posts
\* no request.
C27_EmptyInputNoCall ==
  (EmbedEnded /\ embed_call.texts = <<>>) =>
    /\ embed_call.outcome = "returned"
    /\ embed_call.result = <<>>
    /\ embed_call.model_calls = <<>>
    /\ embed_call.requests = <<>>

\* C28: in the remote backend the sub-batches are requested one after
\* another in input order, and a non-success response to one of them ends
\* the call with an error that carries the response's status and body: no
\* vector is returned and no later sub-batch is requested.
C28_ErrorAborts ==
  (EmbedEnded /\ provider.backend = "openai") =>
    /\ Len(embed_call.requests) <= Len(SubBatches(embed_call.texts))
    /\ Len(embed_call.responses) = Len(embed_call.requests)
    /\ \A j \in 1..Len(embed_call.requests) :
         /\ embed_call.requests[j] = SubBatches(embed_call.texts)[j]
         /\ embed_call.responses[j].status # 200 =>
              /\ embed_call.outcome = "raised"
              /\ embed_call.error.status = embed_call.responses[j].status
              /\ embed_call.error.body = embed_call.responses[j].body
              /\ embed_call.result = <<>>
              /\ Len(embed_call.requests) = j
    /\ embed_call.outcome = "returned" =>
         Len(embed_call.requests) = Len(SubBatches(embed_call.texts))

\* C28 witness: the second sub-batch got a non-success response after the
\* first one had been answered with its vectors.
C28_Witness ==
  /\ EmbedEnded
  /\ provider.backend = "openai"
  /\ Len(embed_call.requests) = 2
  /\ embed_call.responses[1].status = 200
  /\ embed_call.responses[1].data # <<>>
  /\ embed_call.responses[2].status # 200
  /\ embed_call.outcome = "raised"

\* C28 witness, later sub-batch: the first sub-batch got a non-success
\* response while another one was still to be requested.
C28_WitnessFirst ==
  /\ EmbedEnded
  /\ provider.backend = "openai"
  /\ Len(SubBatches(embed_call.texts)) >= 2
  /\ Len(embed_call.requests) = 1
  /\ embed_call.responses[1].status # 200

\* C29: for either backend, reading embedding_dim before initialize() has
\* completed successfully fails; after a successful initialize() it
\* returns, and the same integer on every call.
C29_DimensionAfterInitialize ==
  /\ (embed_call.op = "embedding_dim" /\ embed_call.outcome # "none") =>
       IF embed_call.initialized
       THEN embed_call.outcome = "returned"
       ELSE embed_call.outcome = "raised"
  /\ Cardinality(provider.returned_dims) <= 1


\* The positions, in the returned list, of the chunks cut out of segment src
\* as windows.
WindowsOf(src) ==
  {i \in 1..Len(split_call.chunks) :
     /\ split_call.chunks[i].text.pieces[1].type = "large"
     /\ split_call.chunks[i].text.pieces[1].src = src}

\* Segment src of the call is sliced: with the separator re-attached it is
\* longer than chunk_size.
Oversized(src) ==
  /\ src \in 1..Len(split_call.text)
  /\ split_call.text[src] + SeparatorLen > split_call.chunk_size

\* C31: in the fixed-size variant with 0 <= chunk_overlap < chunk_size, a
\* segment longer than chunk_size is returned as consecutive chunks that are
\* its windows at offsets 0, s, 2s, ... (s = chunk_size - chunk_overlap),
\* one for every such offset inside the segment, each reaching to offset +
\* chunk_size or to the end of the segment, so that they cover it in order;
\* the chunk before the first window ends with the segment before (the
\* chunk in progress was emitted), and the chunk after the last window
\* starts with the segment after (nothing is carried over).
C31_LargeSegmentWindows ==
  (split_call.returned /\ split_call.strategy = "simple") =>
    \A src \in 1..Len(split_call.text) :
      Oversized(src) =>
        LET size == split_call.text[src] + SeparatorLen
            s == split_call.chunk_size - split_call.chunk_overlap
            n == (size + s - 1) \div s
            windows == WindowsOf(src)
        IN /\ Cardinality(windows) = n
           /\ \E first \in 1..Len(split_call.chunks) :
                /\ windows = first..(first + n - 1)
                /\ \A j \in 0..(n - 1) :
                     LET chunk == split_call.chunks[first + j]
                     IN /\ chunk.metadata.segment_index = j
                        /\ chunk.text.len =
                             Min(split_call.chunk_size, size - j * s)
                        /\ chunk.text.len <= split_call.chunk_size
                        /\ chunk.text.pieces = <<Piece(src, chunk.text.len, "large")>>
                /\ (src > 1 /\ ~Oversized(src - 1)) =>
                     /\ first > 1
                     /\ LET before == split_call.chunks[first - 1].text.pieces
                        IN before[Len(before)] =
                             Piece(src - 1,
                                   split_call.text[src - 1] + SeparatorLen,
                                   "segment")
                /\ (src < Len(split_call.text) /\ ~Oversized(src + 1)) =>
                     /\ first + n <= Len(split_call.chunks)
                     /\ split_call.chunks[first + n].text.pieces[1] =
                          Piece(src + 1,
                                split_call.text[src + 1] + SeparatorLen,
                                "segment")

\* C31 witness: with an overlap, a segment was cut into several windows
\* between a chunk that was in progress and a chunk of the next segment.
C31_Witness ==
  /\ split_call.returned
  /\ split_call.strategy = "simple"
  /\ split_call.chunk_overlap > 0
  /\ \E src \in 2..(Len(split_call.text) - 1) :
       /\ Oversized(src)
       /\ ~Oversized(src - 1)
       /\ ~Oversized(src + 1)
       /\ Cardinality(WindowsOf(src)) >= 2

\* C32: in the fixed-size variant no returned chunk flagged as part of a
\* large segment is shorter than one quarter of chunk_size.
C32_NoShortScrap ==
  (split_call.returned /\ split_call.strategy = "simple") =>
    \A i \in 1..Len(split_call.chunks) :
      "is_large_segment" \in DOMAIN split_call.chunks[i].metadata =>
        4 * split_call.chunks[i].text.len >= split_call.chunk_size


\* C33: the semantic variant follows the overflow/overlap policy of the
\* fixed-size one: no returned chunk is longer than chunk_size, and every
\* chunk after the first starts with the longest run of trailing pieces of
\* the chunk before it whose combined length is at most chunk_overlap.
C33_SemanticSamePolicy ==
  (split_call.returned /\ split_call.strategy = "semantic") =>
    /\ \A i \in 1..Len(split_call.chunks) :
         split_call.chunks[i].text.len <= split_call.chunk_size
    /\ \A i \in 2..Len(split_call.chunks) :
         LET previous == split_call.chunks[i - 1].text.pieces
             current == split_call.chunks[i].text.pieces
             n == LongestRun(previous, split_call.chunk_overlap)
         IN /\ Len(current) >= n
            /\ SubSeq(current, 1, n) = TrailingRun(previous, n)

\* C38: no chunk returned by either variant has an empty text.
C38_NoEmptyChunk ==
  split_call.returned =>
    \A i \in 1..Len(split_call.chunks) : split_call.chunks[i].text.len > 0


\* A step that is a call of add_chunks with a batch.
BatchStep == n_calls' = n_calls + 1 /\ store_call'.op = "add_batch"

StoredAligned(d, i) ==
  LET fragment == get_chunk(index, files, uuid4(d, i), conv[d])
  IN /\ fragment.found
     /\ fragment.chunk.document_id = d
     /\ fragment.chunk.text = chunks_data[d][i].text
     /\ fragment.chunk.metadata = chunks_data[d][i].metadata
     /\ fragment.chunk.embedding = Embed(chunks_data[d][i].text)

\* The write of the fragment built from chunk i of document d failed: its
\* file is unreadable and the namespace index has no entry for it.
WriteSkipped(d, i) ==
  /\ files[_get_chunk_path(uuid4(d, i), conv[d])] = CorruptFile
  /\ uuid4(d, i) \notin IndexIds(index, conv[d])

LogFrom(d, k, stages) ==
  /\ Len(status_log[d]) = k + Len(stages) - 1
  /\ \A i \in 1..Len(stages) :
       status_log[d][k + i - 1].processing_stage = stages[i]

\* The run of document d over zero chunks has ended indexed/complete with
\* a recorded chunk count of 0, after the records of the embedding and the
\* storage stage, without a call of the embedding provider.
ZeroChunksIndexed(d) ==
  /\ pc[d] = "returned"
  /\ chunks_data[d] = <<>>
  /\ result[d].success
  /\ result[d].chunk_count = 0
  /\ StatusRecord(d) = StatusData("indexed", "complete", 0, None)
  /\ Len(status_log[d]) >= 3
  /\ LogFrom(d, Len(status_log[d]) - 2, <<"embedding", "storage", "complete">>)
  /\ embed_calls[d] = 0

ConsistentRecord(record) ==
  /\ record.status \in {"processing", "indexed", "failed"}
  /\ record.status = "indexed" <=> record.processing_stage = "complete"
  /\ record.error # None <=> record.status = "failed"

\* C37: every persisted status record is internally consistent, and the
\* stage of a failed record is the stage that was executing when the
\* exception was raised.
C37_ConsistentRecords ==
  /\ \A d \in Docs :
       \A i \in 1..Len(status_log[d]) :
         /\ ConsistentRecord(status_log[d][i])
         /\ status_log[d][i].status = "failed" =>
              status_log[d][i].processing_stage = fault[d]
  /\ \A key \in DOMAIN status_file :
       status_file[key].exists => ConsistentRecord(status_file[key])

\* C37 witness: the run of a document has failed while embedding; its
\* status file holds the failed record with the embedding stage and the
\* error, after records with status processing.
C37_Witness ==
  \E d \in Docs :
    /\ pc[d] = "returned"
    /\ fault[d] = "embedding"
    /\ StatusRecord(d).exists
    /\ StatusRecord(d).status = "failed"
    /\ StatusRecord(d).processing_stage = "embedding"
    /\ StatusRecord(d).error # None
    /\ Len(status_log[d]) >= 2
    /\ status_log[d][Len(status_log[d]) - 1].status = "processing"

\* C39: no request is handed a store or embedding-provider instance whose
\* initialize() has not completed successfully, whatever the order of the
\* first requests and also after an initialize() that raised.
C39_InitializedBeforeHandedOut ==
  \A r \in Requests :
    requests[r].pc = "returned" => requests[r].got = "ready"

\* A status request for document d in namespace c finds neither a status
\* file nor a fragment of the document: it takes the not-found branch.
NotFoundBranch(d, c) ==
  /\ ~status_file[<<ensure_embeddings_dir(c), d>>].exists
  /\ DocumentEntries(index, c, d) = {}

\* C40: once the upload of a document has been acknowledged, in either
\* invocation mode, no status request for the document in its namespace
\* takes the not-found branch, also when the background run has not yet
\* executed its first step.
C40_NeverNotFoundOnceAcknowledged ==
  [][\A d \in Docs :
       (response[d].http = 200 /\ status_request(d, conv[d])) =>
         /\ ~NotFoundBranch(d, conv[d])
         /\ status_response'.document_id = d
    ]_vars

====
